---- MODULE Spec2Model ----
(***************************************************************************)
(* Connection-pool and transaction lifecycle of the in-memory reference    *)
(* engines of @sabl/storage-api: MemKvPool / MemKvConn / MemKvTxn (key-    *)
(* value store) and MemStackPool / MemStackConn / MemStackTxn (stack).     *)
(*                                                                         *)
(* One behaviour exercises one engine, chosen in Init.  A call that awaits *)
(* a connection is two steps: the synchronous part of the call, and the    *)
(* continuation that runs once the awaited promise has resolved.           *)
(***************************************************************************)
EXTENDS Integers, Sequences, FiniteSets, TLC

\* ------------------------------------------------------------------ bounds
MaxCount == 2       \* largest maxCnt a MemKvPool is built with
MaxReq   == 3       \* pool-level calls (conn, get, set, delete, beginTxn) per run
MaxTxn   == 1       \* transactions begun per run
MaxOps   == 2       \* operations buffered in one transaction
MaxKey   == 1       \* keys of the key-value store
MaxVal   == 1       \* values written
MaxStkTxn == 2      \* stack transactions begun per run
MaxStack == 2       \* length of the shared stack and of a transaction's #snap
MaxNest  == 1       \* nested calls of runTransaction in progress
MaxPend  == 1       \* pool-level stack calls suspended at the same time

ConnIds == 1..(MaxCount + 1)
\* a run that makes conn() calls only makes one call more
MaxConnReq == MaxReq + 1

ReqIds  == 1..MaxConnReq
TxnIds  == 1..(MaxTxn + 1)
StkTxnIds == 1..MaxStkTxn
Keys    == 1..MaxKey
Vals    == 1..MaxVal

\* JavaScript `undefined` as a stored or read value; "no own property" of #temp
Undefined == 0
NoOwn     == -1

VARIABLES
  engine,     \* which engine this run exercises: "kv" or "stack"
  maxCnt,     \* MemKvPool.#maxCnt
  closed,     \* MemKvPool.#closed
  active,     \* MemKvPool.#active
  pool,       \* MemKvPool.#pool (the idle list)
  reqQueue,   \* MemKvPool.#reqQueue (request ids, head first)
  conns,      \* MemKvConn objects by id
  reqs,       \* pool-level calls by id: promise state, closure flags, caller's handle
  store,      \* the shared PlainObject
  txns,       \* MemKvTxn objects by id
  closeP,     \* the promise of MemKvPool.close(): state and what it awaits
  stack,      \* the shared array of the stack engine
  stkClosed,  \* MemStackPool.#closed
  stkActive,  \* MemStackPool.#active
  stkWaitClose, \* MemStackPool.#waitClose is not null
  stkCloseP,  \* the promise the first MemStackPool.close() returned
  stkSnap,    \* the transactions that were open when close() was first called
  sconns,     \* MemStackConn objects by id
  stxns,      \* MemStackTxn objects by id
  spend,      \* pool-level push/pop/peek calls suspended at `await this.conn()`
  out,        \* how the latest call or continuation ended: the error it threw
              \* or rejected with ("none" if it did not) and the value it returned
  run         \* the call of runTransaction: where it stands, the transaction it
              \* began and the storage API bound on the context of its callback

kvVars == <<maxCnt, closed, active, pool, reqQueue, conns, reqs, store, txns, closeP>>

stkVars == <<stack, stkClosed, stkActive, stkWaitClose, stkCloseP, stkSnap, sconns, stxns, spend>>

\* the same for the calls the properties tell apart: call names the call, and
\* waited tells whether it had to wait for a connection
OutOf(call, err, result, waited) == [err |-> err, result |-> result, call |-> call, waited |-> waited]

Out(err, result) == OutOf("other", err, result, FALSE)

\* ------------------------------------------------------------ sequence helpers
InSeq(x, s) == \E i \in 1..Len(s) : s[i] = x

\* Array.prototype.indexOf, 1-based; 0 for "not found" (-1 in the source)
IndexOf(s, x) == IF InSeq(x, s) THEN CHOOSE i \in 1..Len(s) : s[i] = x /\ \A j \in 1..(i - 1) : s[j] # x ELSE 0

\* Array.prototype.splice(ix, 1)
Splice(s, ix) == [i \in 1..(Len(s) - 1) |-> IF i < ix THEN s[i] ELSE s[i + 1]]

\* -------------------------------------------------------------- MemKv objects
\* A MemKvConn as constructed: #keepOpen = false, #closed = false, #waitClose = null, #txn = null
NewConn == [made |-> TRUE, closed |-> FALSE, keepOpen |-> FALSE, waitClose |-> FALSE, txn |-> 0]

NoConn == [made |-> FALSE, closed |-> FALSE, keepOpen |-> FALSE, waitClose |-> FALSE, txn |-> 0]

\* A pool-level call before it is made
NoReq == [kind |-> "none", phase |-> "new", sub |-> FALSE, timedOut |-> FALSE, resolved |-> FALSE, waited |-> FALSE, con |-> 0, key |-> 0, val |-> 0, ro |-> FALSE, head |-> 0, ahead |-> {}]

\* A call that has settled. Nothing reads the arguments of a settled call
\* again, so the model keeps that it settled and the timedOut flag of its
\* closure only; how it settled is in out and in S.thrown.
Settled(rq) == [NoReq EXCEPT !.phase = "settled", !.timedOut = rq.timedOut]

NoTxn == [made |-> FALSE, con |-> 0, temp |-> [k \in Keys |-> NoOwn], ops |-> <<>>, readonly |-> FALSE, done |-> FALSE]

\* The pool, its connections and its pending calls as one value, so that the
\* methods below, which call each other, are functions from state to state.
\* thrown is the exception propagating out of the call, "none" if none;
\* rejected is the set of calls whose promise the step rejected with
\* 'Context was canceled before a connection was available'.
Bundle == [closed |-> closed, maxCnt |-> maxCnt, active |-> active, pool |-> pool, reqQueue |-> reqQueue, conns |-> conns, reqs |-> reqs, thrown |-> "none", awaits |-> {}, rejected |-> {}]

\* a reset that leaves #closed as it is
ResetKeepOpenOnly(S, c, keepOpen) == [S EXCEPT !.conns[c].keepOpen = keepOpen]

\* MemKvConn.reset
Reset(S, c, keepOpen) == [S EXCEPT !.conns[c].closed = FALSE, !.conns[c].keepOpen = keepOpen]

\* a conn() without the test of #closed
PoolCheckOff(S) == "none"

\* MemKvPool.conn: the test `this.#closed` that throws 'Pool is closed'
PoolCheck(S) == IF S.closed THEN "PoolClosed" ELSE "none"

\* a capacity test that admits one connection too many
HasCapacityLe(S) == Len(S.active) <= S.maxCnt

\* a capacity test that admits one connection too few
HasCapacityShort(S) == Len(S.active) < S.maxCnt - 1

\* MemKvPool.conn: the capacity test before a connection is constructed
HasCapacity(S) == Len(S.active) < S.maxCnt

\* a return() that takes the waiter queued last
QueuePop(q) == [req |-> q[Len(q)], rest |-> SubSeq(q, 1, Len(q) - 1)]

\* MemKvPool.return: this.#reqQueue.shift()
QueueShift(q) == [req |-> Head(q), rest |-> Tail(q)]

RECURSIVE ConnClose(_, _)
RECURSIVE Return(_, _)

\* a close() that marks the connection closed and leaves it where it is
ConnCloseKeep(S, c) == [S EXCEPT !.conns[c].closed = TRUE]

\* a `res` that resolves without looking at timedOut
ResolveNoCheck(S, r, c) == [S EXCEPT !.reqs[r].resolved = TRUE, !.reqs[r].sub = FALSE, !.reqs[r].phase = "granted", !.reqs[r].con = c]

\* a `res` that drops the connection of a canceled request without closing it
ResolveLeak(S, r, c) ==
  IF S.reqs[r].timedOut
    THEN S
    ELSE [S EXCEPT !.reqs[r].resolved = TRUE, !.reqs[r].sub = FALSE, !.reqs[r].phase = "granted", !.reqs[r].con = c]

\* cancelableConnRequest: the external resolve `res`; PromiseHandle.resolve for
\* a request made without a canceler (its timedOut is never set)
Resolve(S, r, c) ==
  IF S.reqs[r].timedOut
    THEN ConnClose(S, c)
    ELSE [S EXCEPT !.reqs[r].resolved = TRUE, !.reqs[r].sub = FALSE, !.reqs[r].phase = "granted", !.reqs[r].con = c]

\* a return() that puts the connection into the idle list whoever is waiting
ReturnIdle(S, c) ==
  LET ix == IndexOf(S.active, c) IN
  IF ix = 0
    THEN [S EXCEPT !.thrown = "NotInPool"]
    ELSE [S EXCEPT !.active = Splice(@, ix), !.pool = Append(@, c)]

\* a return() that leaves the connection in the active list when it puts it
\* into the idle list
ReturnNoSplice(S, c) ==
  LET ix == IndexOf(S.active, c) IN
  IF ix = 0
    THEN [S EXCEPT !.thrown = "NotInPool"]
    ELSE IF S.reqQueue # <<>>
      THEN LET sh == QueueShift(S.reqQueue) IN
           Resolve(Reset([S EXCEPT !.reqQueue = sh.rest], c, TRUE), sh.req, c)
      ELSE [S EXCEPT !.pool = Append(@, c)]

\* MemKvPool.return
Return(S, c) ==
  LET ix == IndexOf(S.active, c) IN
  IF ix = 0
    THEN [S EXCEPT !.thrown = "NotInPool"]
    ELSE IF S.reqQueue # <<>>
      THEN LET sh == QueueShift(S.reqQueue) IN
           Resolve(Reset([S EXCEPT !.reqQueue = sh.rest], c, TRUE), sh.req, c)
      ELSE [S EXCEPT !.active = Splice(@, ix), !.pool = Append(@, c)]

\* MemKvConn.close
ConnClose(S, c) ==
  IF S.conns[c].closed
    THEN S
    ELSE IF S.conns[c].txn # 0
      THEN [S EXCEPT !.conns[c].closed = TRUE, !.conns[c].waitClose = TRUE]
      ELSE Return([S EXCEPT !.conns[c].closed = TRUE], c)

\* MemKvConn.close: is the promise it returns still pending
ConnClosePending(S, c) == ~S.conns[c].closed /\ S.conns[c].txn # 0

\* a #txnDone that closes the connection whoever holds it
TxnDoneClose(S, c) ==
  LET S1 == [S EXCEPT !.conns[c].txn = 0] IN
  IF S1.conns[c].waitClose
    THEN Return([S1 EXCEPT !.conns[c].waitClose = FALSE], c)
    ELSE ConnClose(S1, c)

\* MemKvConn.#txnDone
TxnDone(S, c) ==
  LET S1 == [S EXCEPT !.conns[c].txn = 0] IN
  IF S1.conns[c].waitClose
    THEN Return([S1 EXCEPT !.conns[c].waitClose = FALSE], c)
    ELSE IF ~S1.conns[c].keepOpen THEN ConnClose(S1, c) ELSE S1

\* an onCancel that also takes the request out of the waiter queue
OnCancelDequeue(S, r) ==
  IF S.reqs[r].resolved
    THEN [S EXCEPT !.reqs[r].sub = FALSE]
    ELSE [S EXCEPT !.reqs[r] = Settled([@ EXCEPT !.timedOut = TRUE]), !.rejected = @ \cup {r}, !.reqQueue = SelectSeq(@, LAMBDA q : q # r)]

\* cancelableConnRequest: handle.onCancel
OnCancel(S, r) ==
  IF S.reqs[r].resolved
    THEN [S EXCEPT !.reqs[r].sub = FALSE]
    ELSE [S EXCEPT !.reqs[r] = Settled([@ EXCEPT !.timedOut = TRUE]), !.rejected = @ \cup {r}]

\* the connection `new MemKvConn` yields: the first id not yet constructed
FreshConn(S) == CHOOSE c \in ConnIds : ~S.conns[c].made /\ \A d \in ConnIds : d < c => S.conns[d].made

\* MemKvPool.conn, called for request r with a context that has a canceler
\* (cancelable) or has none; sub: handle.onCancel is subscribed to the canceler
Conn(S, r, cancelable) ==
  IF PoolCheck(S) # "none"
    THEN [S EXCEPT !.reqs[r] = Settled(@), !.thrown = PoolCheck(S)]
    ELSE IF Len(S.pool) > 0
      THEN LET c == Head(S.pool) IN
           [Reset([S EXCEPT !.pool = Tail(@), !.active = Append(@, c)], c, TRUE) EXCEPT !.reqs[r].phase = "granted", !.reqs[r].con = c]
      ELSE IF HasCapacity(S)
        THEN LET c == FreshConn(S) IN
             [Reset([S EXCEPT !.conns[c] = NewConn, !.active = Append(@, c)], c, TRUE) EXCEPT !.reqs[r].phase = "granted", !.reqs[r].con = c]
        ELSE [S EXCEPT !.reqQueue = Append(@, r), !.reqs[r].phase = "wait", !.reqs[r].waited = TRUE, !.reqs[r].sub = cancelable]

\* MemKvPool.close: the for...of loop over #active, which reads the live array
\* by index, so a connection removed by c.close() shifts the rest one down;
\* awaits collects the connections whose close() promise is still pending
RECURSIVE CloseLoop(_, _)
CloseLoop(S, i) ==
  IF S.thrown # "none" \/ i > Len(S.active)
    THEN S
    ELSE LET c == S.active[i] IN
         CloseLoop(ConnClose([S EXCEPT !.awaits = IF ConnClosePending(S, c) THEN @ \cup {c} ELSE @], c), i + 1)

\* MemKvPool.close up to its await
PoolCloseCall(S) ==
  CloseLoop([S EXCEPT !.closed = TRUE, !.pool = <<>>], 1)

\* ------------------------------------------------------------- MemKvTxn
\* a read that goes to the shared store whatever the transaction has written
TxnReadStore(tx, st, k) == st[k]

\* this.#temp[key], #temp being Object.create(store): the own property if the
\* transaction has written the key, the shared store's current value otherwise
TxnRead(tx, st, k) == IF tx.temp[k] # NoOwn THEN tx.temp[k] ELSE st[k]

\* a commit that applies the operations last to first
RECURSIVE ApplyOpsRev(_, _)
ApplyOpsRev(st, ops) ==
  IF ops = <<>>
    THEN st
    ELSE LET op == ops[Len(ops)] IN
         ApplyOpsRev([st EXCEPT ![op.key] = IF op.type = "set" THEN op.val ELSE Undefined], SubSeq(ops, 1, Len(ops) - 1))

\* MemKvTxn.commit: the loop that applies #ops to the store
RECURSIVE ApplyOps(_, _)
ApplyOps(st, ops) ==
  IF ops = <<>>
    THEN st
    ELSE LET op == Head(ops) IN
         ApplyOps([st EXCEPT ![op.key] = IF op.type = "set" THEN op.val ELSE Undefined], Tail(ops))

\* MemKvTxn.set: what it does to the transaction object
TxnSetOp(tx, k, v) == [tx EXCEPT !.ops = Append(@, [type |-> "set", key |-> k, val |-> v]), !.temp[k] = v]

\* MemKvTxn.delete: what it does to the transaction object
TxnDeleteOp(tx, k) == [tx EXCEPT !.ops = Append(@, [type |-> "delete", key |-> k, val |-> Undefined]), !.temp[k] = Undefined]

\* A transaction after commit or rollback. Every method of a finished
\* transaction throws before it reads #temp or the connection, so the model
\* keeps #done and #ops only.
Finished(tx) == [NoTxn EXCEPT !.made = TRUE, !.done = TRUE, !.ops = tx.ops, !.readonly = tx.readonly]

\* the transaction `new MemKvTxn` yields: the first id not yet constructed
FreshTxn == CHOOSE t \in TxnIds : ~txns[t].made /\ \A u \in TxnIds : u < t => txns[u].made

\* transactions begun so far, and those a pending pool.beginTxn will begin
TxnBudget == Cardinality({t \in TxnIds : txns[t].made}) + Cardinality({r \in ReqIds : reqs[r].kind = "beginTxn" /\ reqs[r].phase \in {"wait", "granted"}})

\* ------------------------------------------------------------- MemKv actions
Install(S) ==
  /\ closed' = S.closed
  /\ active' = S.active
  /\ pool' = S.pool
  /\ reqQueue' = S.reqQueue
  /\ conns' = S.conns
  /\ reqs' = S.reqs

\* the number of pool-level calls made so far
Calls == Cardinality({r \in ReqIds : reqs[r].phase # "new"})

NextReq == CHOOSE r \in ReqIds : reqs[r].phase = "new" /\ \A q \in ReqIds : q < r => reqs[q].phase # "new"

\* the synchronous part of a pool-level call: every one of them starts with
\* this.conn(ctx); cancelable: ctx has a canceler; limit: calls per run
PoolCall(limit, kind, cancelable, k, v, ro) ==
  /\ engine = "kv"
  /\ Calls < limit
  /\ LET r == NextReq
         S0 == [Bundle EXCEPT !.reqs[r] = [NoReq EXCEPT !.kind = kind, !.key = k, !.val = v, !.ro = ro]]
         S1 == Conn(S0, r, cancelable)
     IN /\ Install(S1)
        /\ out' = Out(S1.thrown, Undefined)
  /\ UNCHANGED <<engine, run, stkVars, maxCnt, store, txns, closeP>>

\* MemKvPool.conn
PoolConn(limit) == \E cx \in BOOLEAN : PoolCall(limit, "conn", cx, 0, 0, FALSE)

\* MemKvPool.get up to its await
PoolGet == \E cx \in BOOLEAN, k \in Keys : PoolCall(MaxReq, "get", cx, k, 0, FALSE)

\* MemKvPool.set up to its await
PoolSet == \E cx \in BOOLEAN, k \in Keys, v \in Vals : PoolCall(MaxReq, "set", cx, k, v, FALSE)

\* MemKvPool.delete up to its await
PoolDelete == \E cx \in BOOLEAN, k \in Keys : PoolCall(MaxReq, "delete", cx, k, 0, FALSE)

\* MemKvPool.beginTxn up to its await
PoolBeginTxn(limit, txnLimit, ro) ==
  /\ TxnBudget < txnLimit
  /\ \E cx \in BOOLEAN : PoolCall(limit, "beginTxn", cx, 0, 0, ro)

\* the caller of conn() receives the connection its promise resolved with
ReceiveConn(r) ==
  /\ engine = "kv"
  /\ reqs[r].phase = "granted"
  /\ reqs[r].kind = "conn"
  /\ reqs' = [reqs EXCEPT ![r].phase = "held", ![r].waited = FALSE]
  /\ out' = Out("none", Undefined)
  /\ UNCHANGED <<engine, run, stkVars, maxCnt, closed, active, pool, reqQueue, conns, store, txns, closeP>>

\* a set or delete that is buffered and never reaches the store
CrudStoreKeep(kind, k, v) == store

\* MemKvConn.get / set / delete applied to the store
CrudStore(kind, k, v) ==
  CASE kind = "set" -> [store EXCEPT ![k] = v]
    [] kind = "delete" -> [store EXCEPT ![k] = Undefined]
    [] OTHER -> store

\* a get that returns nothing
CrudResultNone(kind, k) == Undefined

\* MemKvConn.get / set / delete on an open connection: the value returned
CrudResult(kind, k) == IF kind = "get" THEN store[k] ELSE Undefined

\* MemKvPool.get / set / delete after the await: the operation on the
\* connection, then con.close() in the finally block
ReceiveCrud(r) ==
  /\ engine = "kv"
  /\ reqs[r].phase = "granted"
  /\ reqs[r].kind \in {"get", "set", "delete"}
  /\ LET c == reqs[r].con
         wasClosed == conns[c].closed
         S1 == ConnClose(Bundle, c)
         err == IF S1.thrown # "none" THEN S1.thrown ELSE IF wasClosed THEN "ConnectionClosed" ELSE "none"
     IN /\ store' = IF wasClosed THEN store ELSE CrudStore(reqs[r].kind, reqs[r].key, reqs[r].val)
        /\ Install([S1 EXCEPT !.reqs[r] = Settled(@)])
        /\ out' = OutOf(reqs[r].kind, err, IF wasClosed THEN Undefined ELSE CrudResult(reqs[r].kind, reqs[r].key), reqs[r].waited)
  /\ UNCHANGED <<engine, run, stkVars, maxCnt, txns, closeP>>

\* MemKvConn.beginTxn on an open connection: the new transaction
BeginTxnOn(c, ro) == [NoTxn EXCEPT !.made = TRUE, !.con = c, !.readonly = ro]

\* MemKvPool.beginTxn after the await: con.reset(false), con.beginTxn
ReceiveBeginTxn(r) ==
  /\ engine = "kv"
  /\ reqs[r].phase = "granted"
  /\ reqs[r].kind = "beginTxn"
  /\ LET c == reqs[r].con
         S1 == Reset(Bundle, c, FALSE)
     IN /\ txns' = [txns EXCEPT ![FreshTxn] = BeginTxnOn(c, reqs[r].ro)]
        /\ Install([S1 EXCEPT !.reqs[r] = Settled(@)])
  /\ out' = Out("none", Undefined)
  /\ UNCHANGED <<engine, run, stkVars, maxCnt, store, closeP>>

\* the context of a queued call is canceled: the canceler runs the listener
\* subscribed to it, handle.onCancel
Cancel(r) ==
  /\ engine = "kv"
  /\ reqs[r].sub
  /\ LET S1 == OnCancel(Bundle, r)
     IN /\ Install(S1)
        /\ out' = Out(IF r \in S1.rejected THEN "ContextCanceled" ELSE "none", Undefined)
  /\ UNCHANGED <<engine, run, stkVars, maxCnt, store, txns, closeP>>

\* a caller that received a connection from conn() keeps its handle after
\* closing it, so close() and the other methods may be called on it again
HasHandle(r) == reqs[r].kind = "conn" /\ reqs[r].phase \in {"held", "closed"}

\* MemKvConn.close, called by the holder of a handle
HandleClose(r) ==
  /\ engine = "kv"
  /\ HasHandle(r)
  /\ LET S1 == ConnClose(Bundle, reqs[r].con)
     IN /\ Install([S1 EXCEPT !.reqs[r].phase = "closed"])
        /\ out' = Out(S1.thrown, Undefined)
  /\ UNCHANGED <<engine, run, stkVars, maxCnt, store, txns, closeP>>

\* `await con.close()` by the holder of a connection, up to the await.
\* close() runs to its end; the caller's continuation is queued behind the
\* continuations already queued, which are those of the pool-level calls
\* that have been granted a connection (an async function awaits this.conn()
\* within the call, and jobs run first in, first out): ahead. head is the
\* set or delete that was first in the waiter queue when close() was called.
CloseAwait(r) ==
  /\ engine = "kv"
  /\ HasHandle(r)
  /\ reqs[r].phase = "held"
  /\ LET S1 == ConnClose(Bundle, reqs[r].con)
         first == IF reqQueue # <<>> /\ reqs[Head(reqQueue)].kind \in {"set", "delete"} THEN Head(reqQueue) ELSE 0
         granted == {q \in ReqIds : S1.reqs[q].phase = "granted" /\ S1.reqs[q].kind \in {"get", "set", "delete", "beginTxn"}}
     IN /\ Install(IF S1.thrown # "none"
                     THEN [S1 EXCEPT !.reqs[r].phase = "closed"]
                     ELSE [S1 EXCEPT !.reqs[r].phase = "closing", !.reqs[r].head = first, !.reqs[r].ahead = granted])
        /\ out' = Out(S1.thrown, Undefined)
  /\ UNCHANGED <<engine, run, stkVars, maxCnt, store, txns, closeP>>

\* `await con.close()`: the caller resumes
CloseResume(r) ==
  /\ engine = "kv"
  /\ reqs[r].phase = "closing"
  /\ \A q \in reqs[r].ahead : reqs[q].phase # "granted"
  /\ reqs' = [reqs EXCEPT ![r].phase = "closed", ![r].ahead = {}]
  /\ out' = OutOf("close", "none", Undefined, FALSE)
  /\ UNCHANGED <<engine, run, stkVars, maxCnt, closed, active, pool, reqQueue, conns, store, txns, closeP>>

\* MemKvConn.get / set / delete, called by the holder of a handle
HandleCrud(r, kind, k, v) ==
  /\ engine = "kv"
  /\ HasHandle(r)
  /\ LET wasClosed == conns[reqs[r].con].closed
     IN /\ store' = IF wasClosed THEN store ELSE CrudStore(kind, k, v)
        /\ out' = Out(IF wasClosed THEN "ConnectionClosed" ELSE "none", IF wasClosed THEN Undefined ELSE CrudResult(kind, k))
  /\ UNCHANGED <<engine, run, stkVars, maxCnt, closed, active, pool, reqQueue, conns, reqs, txns, closeP>>

\* MemKvConn.get
ConnGet(r) == \E k \in Keys : HandleCrud(r, "get", k, 0)

\* MemKvConn.set
ConnSet(r) == \E k \in Keys, v \in Vals : HandleCrud(r, "set", k, v)

\* MemKvConn.delete
ConnDelete(r) == \E k \in Keys : HandleCrud(r, "delete", k, 0)

\* MemKvConn.beginTxn, called by the holder of a handle
ConnBeginTxn(r, txnLimit, ro) ==
  /\ engine = "kv"
  /\ HasHandle(r)
  /\ TxnBudget < txnLimit
  /\ LET c == reqs[r].con IN
       IF conns[c].closed
         THEN /\ out' = Out("ConnectionClosed", Undefined)
              /\ UNCHANGED txns
         ELSE /\ out' = Out("none", Undefined)
              /\ txns' = [txns EXCEPT ![FreshTxn] = BeginTxnOn(c, ro)]
  /\ UNCHANGED <<engine, run, stkVars, maxCnt, closed, active, pool, reqQueue, conns, reqs, store, closeP>>

\* set and delete without the test of #readonly
TxnWriteErrorNoRo(tx) == IF tx.done THEN "TransactionComplete" ELSE "none"

\* the checks MemKvTxn.set and delete start with
TxnWriteError(tx) == IF tx.done THEN "TransactionComplete" ELSE IF tx.readonly THEN "TransactionReadOnly" ELSE "none"

\* MemKvTxn.set
TxnSet(t) ==
  /\ engine = "kv"
  /\ txns[t].made
  /\ Len(txns[t].ops) < MaxOps
  /\ \E k \in Keys, v \in Vals :
       LET tx == txns[t] IN
       /\ txns' = [txns EXCEPT ![t] = IF TxnWriteError(tx) # "none" THEN tx ELSE TxnSetOp(tx, k, v)]
       /\ out' = Out(TxnWriteError(tx), Undefined)
  /\ UNCHANGED <<engine, run, stkVars, maxCnt, closed, active, pool, reqQueue, conns, reqs, store, closeP>>

\* MemKvTxn.delete
TxnDelete(t) ==
  /\ engine = "kv"
  /\ txns[t].made
  /\ Len(txns[t].ops) < MaxOps
  /\ \E k \in Keys :
       LET tx == txns[t] IN
       /\ txns' = [txns EXCEPT ![t] = IF TxnWriteError(tx) # "none" THEN tx ELSE TxnDeleteOp(tx, k)]
       /\ out' = Out(TxnWriteError(tx), Undefined)
  /\ UNCHANGED <<engine, run, stkVars, maxCnt, closed, active, pool, reqQueue, conns, reqs, store, closeP>>

\* MemKvTxn.get
TxnGet(t) ==
  /\ engine = "kv"
  /\ txns[t].made
  /\ \E k \in Keys :
       out' = IF txns[t].done THEN Out("TransactionComplete", Undefined) ELSE Out("none", TxnRead(txns[t], store, k))
  /\ UNCHANGED <<engine, run, stkVars, kvVars>>

\* an end of a transaction that applies the operations even on rollback
EndStoreApply(st, ops, commit) == ApplyOps(st, ops)

\* MemKvTxn.commit and rollback: the store afterwards
EndStore(st, ops, commit) == IF commit THEN ApplyOps(st, ops) ELSE st

\* MemKvTxn.commit and rollback: done is set, commit applies the operations,
\* then #close runs the connection's #txnDone
TxnEnd(t, commit) ==
  /\ engine = "kv"
  /\ txns[t].made
  /\ IF txns[t].done
       THEN /\ out' = OutOf(IF commit THEN "commit" ELSE "rollback", "TransactionComplete", Undefined, FALSE)
            /\ UNCHANGED <<closed, active, pool, reqQueue, conns, reqs, store, txns>>
       ELSE LET S1 == TxnDone(Bundle, txns[t].con)
            IN /\ store' = EndStore(store, txns[t].ops, commit)
               /\ txns' = [txns EXCEPT ![t] = Finished(@)]
               /\ Install(S1)
               /\ out' = OutOf(IF commit THEN "commit" ELSE "rollback", S1.thrown, Undefined, FALSE)
  /\ UNCHANGED <<engine, run, stkVars, maxCnt, closeP>>

\* MemKvTxn.commit
TxnCommit(t) == TxnEnd(t, TRUE)

\* MemKvTxn.rollback
TxnRollback(t) == TxnEnd(t, FALSE)

\* the context a MemKvTxn was begun with is canceled: the constructor takes
\* the store, the options and the connection's callback and subscribes
\* nothing to ctx.canceler, so no code of the transaction runs
TxnCtxCancel(t) ==
  /\ engine = "kv"
  /\ txns[t].made
  /\ out' = OutOf("cancel", "none", Undefined, FALSE)
  /\ UNCHANGED <<engine, run, kvVars, stkVars>>

\* MemKvPool.close, first call: everything up to the await
PoolClose ==
  /\ engine = "kv"
  /\ IF closed
       THEN UNCHANGED <<closed, active, pool, reqQueue, conns, reqs, closeP>>
       ELSE LET S1 == PoolCloseCall(Bundle)
            IN /\ Install(S1)
               /\ closeP' = [state |-> IF S1.thrown # "none" THEN "rejected" ELSE "pending", awaits |-> S1.awaits, snapActive |-> active, snapQueue |-> reqQueue, snapTxns |-> {t \in TxnIds : txns[t].made /\ ~txns[t].done}]
  /\ out' = Out("none", Undefined)
  /\ UNCHANGED <<engine, run, stkVars, maxCnt, store, txns>>

\* MemKvPool.close after the await: Promise.all(promises) has resolved
PoolCloseSettle ==
  /\ engine = "kv"
  /\ closeP.state = "pending"
  /\ \A c \in closeP.awaits : ~conns[c].waitClose
  /\ closeP' = [closeP EXCEPT !.state = "resolved"]
  /\ out' = Out("none", Undefined)
  /\ UNCHANGED <<engine, run, stkVars, maxCnt, closed, active, pool, reqQueue, conns, reqs, store, txns>>

\* ------------------------------------------------------------- MemStack
\* runTransaction before it is called; api: the storage API of the context
\* it is called with, bound: the storage API of the context of its callback
\* ops: the operations the transaction had buffered when runTransaction ended
\* it; err: the error runTransaction rejected with; args: the arguments after
\* the context; inner: the nested calls of runTransaction in progress, each
\* with the context and the transaction its callback was handed (context 0
\* is the one the outer call was given, context 1 the one it derived) and
\* the number of operations the transaction had buffered at the call
\* calls: the calls of commit() and rollback() runTransaction has made on
\* the transaction it began, in order
NoRun == [phase |-> "none", api |-> -1, args |-> "fn", txn |-> 0, bound |-> 0, ops |-> <<>>, err |-> "none", inner |-> <<>>, calls |-> <<>>]

\* A MemStackConn before it is constructed
NoSConn == [made |-> FALSE, closed |-> FALSE, keepOpen |-> FALSE, closeResolve |-> "null", txns |-> <<>>]

\* new MemStackConn(pool, stack, keepOpen)
NewSConn(keepOpen) == [NoSConn EXCEPT !.made = TRUE, !.keepOpen = keepOpen]

\* A MemStackTxn before it is constructed; sub: #onCancel is subscribed
NoSTxn == [made |-> FALSE, con |-> 0, snap |-> <<>>, ops |-> <<>>, readonly |-> FALSE, done |-> FALSE, sub |-> FALSE]

\* new MemStackTxn(con, stack, opts, clr): #snap = stack.concat()
NewSTxn(c, ro, cancelable) == [NoSTxn EXCEPT !.made = TRUE, !.con = c, !.snap = stack, !.readonly = ro, !.sub = cancelable]

\* A stack transaction after commit or rollback: every method throws before
\* it reads #ops or #snap, and #con._txnDone no longer finds it
FinishedS == [NoSTxn EXCEPT !.made = TRUE, !.done = TRUE]

\* a #complete that leaves the listener subscribed
FinishedSub(tx) == [NoSTxn EXCEPT !.made = TRUE, !.done = TRUE, !.sub = tx.sub]

\* MemStackTxn.#complete, its call of #cancel: the listener is unsubscribed
\* from the canceler and #onCancel set to null
Completed(tx) == FinishedS

\* the stack pool and its connections as one value; resolved: the promise of
\* the pool's close() was resolved during the call
SBundle == [active |-> stkActive, waitClose |-> stkWaitClose, closeP |-> stkCloseP, conns |-> sconns, thrown |-> "none"]

\* MemStackPool._release
Release(T, c) ==
  LET ix == IndexOf(T.active, c) IN
  IF ix = 0
    THEN T
    ELSE LET T1 == [T EXCEPT !.active = Splice(@, ix)] IN
         IF Len(T1.active) = 0 /\ T1.waitClose
           THEN [T1 EXCEPT !.waitClose = FALSE, !.closeP = "resolved"]
           ELSE T1

\* MemStackConn.close
SConnClose(T, c) ==
  IF T.conns[c].closed
    THEN [T EXCEPT !.thrown = "ConnectionClosed"]
    ELSE IF T.conns[c].txns # <<>>
      THEN [T EXCEPT !.conns[c].closed = TRUE, !.conns[c].closeResolve = "pending"]
      ELSE Release([T EXCEPT !.conns[c].closed = TRUE], c)

\* a _txnDone that resolves a pending close() when any transaction completes
STxnDoneAny(T, c, t) ==
  LET ix == IndexOf(T.conns[c].txns, t) IN
  IF ix = 0
    THEN T
    ELSE LET T1 == [T EXCEPT !.conns[c].txns = Splice(@, ix)] IN
         IF T1.conns[c].closeResolve # "null"
           THEN [Release(T1, c) EXCEPT !.conns[c].closeResolve = "resolved"]
           ELSE IF Len(T1.conns[c].txns) = 0 /\ ~T1.conns[c].keepOpen THEN SConnClose(T1, c) ELSE T1

\* MemStackConn._txnDone
STxnDone(T, c, t) ==
  LET ix == IndexOf(T.conns[c].txns, t) IN
  IF ix = 0
    THEN T
    ELSE LET T1 == [T EXCEPT !.conns[c].txns = Splice(@, ix)] IN
         IF Len(T1.conns[c].txns) = 0
           THEN IF T1.conns[c].closeResolve # "null"
                  THEN [Release(T1, c) EXCEPT !.conns[c].closeResolve = "resolved"]
                  ELSE IF ~T1.conns[c].keepOpen THEN SConnClose(T1, c) ELSE T1
           ELSE T1

\* MemStackTxn.commit: the loop that applies #ops to the shared stack
RECURSIVE Replay(_, _)
Replay(stk, ops) ==
  IF ops = <<>>
    THEN stk
    ELSE LET op == Head(ops) IN
         Replay(IF op.op = "push" THEN Append(stk, op.val) ELSE IF stk = <<>> THEN stk ELSE SubSeq(stk, 1, Len(stk) - 1), Tail(ops))

\* Array.prototype.pop: the array afterwards
PopSeq(a) == IF a = <<>> THEN a ELSE SubSeq(a, 1, Len(a) - 1)

\* a[a.length - 1], which is also what Array.prototype.pop returns
Top(a) == IF a = <<>> THEN Undefined ELSE a[Len(a)]

\* MemStackTxn.push: what it does to the transaction object
STxnPushOp(tx, v) == [tx EXCEPT !.ops = Append(@, [op |-> "push", val |-> v]), !.snap = Append(@, v)]

\* MemStackTxn.pop: what it does to the transaction object
STxnPopOp(tx) == [tx EXCEPT !.ops = Append(@, [op |-> "pop", val |-> Undefined]), !.snap = PopSeq(@)]

\* a #checkStatus without the test of #done
SCheckStatusNoDone(tx, mod) == IF mod /\ tx.readonly THEN "TransactionReadOnly" ELSE "none"

\* MemStackTxn.#checkStatus
SCheckStatus(tx, mod) == IF tx.done THEN "TransactionComplete" ELSE IF mod /\ tx.readonly THEN "TransactionReadOnly" ELSE "none"

FreshSConn == CHOOSE c \in ConnIds : ~sconns[c].made /\ \A d \in ConnIds : d < c => sconns[d].made

FreshSTxn == CHOOSE t \in StkTxnIds : ~stxns[t].made /\ \A u \in StkTxnIds : u < t => stxns[u].made

\* the number of connections constructed so far
SConnsMade == Cardinality({c \in ConnIds : sconns[c].made})

SInstall(T) ==
  /\ stkActive' = T.active
  /\ stkWaitClose' = T.waitClose
  /\ stkCloseP' = T.closeP
  /\ sconns' = T.conns

\* MemStackPool.#checkStatus
SPoolCheck == IF stkClosed THEN "PoolClosed" ELSE "none"

\* MemStackPool.conn
StkPoolConn(limit) ==
  /\ engine = "stack"
  /\ SConnsMade < limit
  /\ IF SPoolCheck # "none"
       THEN UNCHANGED sconns
       ELSE sconns' = [sconns EXCEPT ![FreshSConn] = NewSConn(TRUE)]
  /\ out' = Out(SPoolCheck, Undefined)
  /\ UNCHANGED <<engine, run, kvVars, stack, stkClosed, stkActive, stkWaitClose, stkCloseP, stkSnap, stxns, spend>>

\* MemStackPool.push / pop / peek up to the await: #checkStatus, this.conn()
StkPoolOp ==
  /\ engine = "stack"
  /\ Len(spend) < MaxPend
  /\ \E op \in {"push", "pop", "peek"}, v \in Vals :
       /\ op # "push" => v = 1
       /\ spend' = IF SPoolCheck # "none" THEN spend ELSE Append(spend, [op |-> op, val |-> v])
  /\ out' = Out(SPoolCheck, Undefined)
  /\ UNCHANGED <<engine, run, kvVars, stack, stkClosed, stkActive, stkWaitClose, stkCloseP, stkSnap, sconns, stxns>>

\* MemStackConn.push / pop / peek on an open connection: the stack afterwards
SCrudStack(op, v) ==
  CASE op = "push" -> Append(stack, v)
    [] op = "pop" -> PopSeq(stack)
    [] OTHER -> stack

\* MemStackConn.push / pop / peek on an open connection: the value returned
SCrudResult(op, v) == IF op = "push" THEN Len(stack) + 1 ELSE Top(stack)

\* MemStackPool.push / pop / peek after the await: the operation on the new
\* connection, then con.close(), which finds the connection open, without
\* transactions and not in #active
StkPoolOpResume ==
  /\ engine = "stack"
  /\ spend # <<>>
  /\ LET p == Head(spend) IN
     /\ p.op = "push" => Len(stack) < MaxStack
     /\ stack' = SCrudStack(p.op, p.val)
     /\ out' = Out("none", SCrudResult(p.op, p.val))
  /\ spend' = Tail(spend)
  /\ UNCHANGED <<engine, run, kvVars, stkClosed, stkActive, stkWaitClose, stkCloseP, stkSnap, sconns, stxns>>

\* a caller has a handle to the connections conn() returned
SHasHandle(c) == sconns[c].made /\ sconns[c].keepOpen

\* MemStackConn.close, called by the holder of a handle
StkConnClose(c) ==
  /\ engine = "stack"
  /\ SHasHandle(c)
  /\ LET T1 == SConnClose(SBundle, c)
     IN /\ SInstall(T1)
        /\ out' = Out(T1.thrown, Undefined)
  /\ UNCHANGED <<engine, run, kvVars, stack, stkClosed, stkSnap, stxns, spend>>

\* MemStackConn.push / pop / peek, called by the holder of a handle
StkConnOp(c) ==
  /\ engine = "stack"
  /\ SHasHandle(c)
  /\ \E op \in {"push", "pop", "peek"}, v \in Vals :
       /\ op # "push" => v = 1
       /\ op = "push" => Len(stack) < MaxStack
       /\ IF sconns[c].closed
            THEN /\ out' = Out("ConnectionClosed", Undefined)
                 /\ UNCHANGED stack
            ELSE /\ out' = Out("none", SCrudResult(op, v))
                 /\ stack' = SCrudStack(op, v)
  /\ UNCHANGED <<engine, run, kvVars, stkClosed, stkActive, stkWaitClose, stkCloseP, stkSnap, sconns, stxns, spend>>

\* MemStackConn.beginTxn: the error it throws, the connections and the
\* transactions afterwards
SConnBeginTxn(c, ro, cancelable) ==
  IF sconns[c].closed
    THEN [err |-> "ConnectionClosed", conns |-> sconns, txns |-> stxns]
    ELSE [err |-> "none",
          conns |-> [sconns EXCEPT ![c].txns = Append(@, FreshSTxn)],
          txns |-> [stxns EXCEPT ![FreshSTxn] = NewSTxn(c, ro, cancelable)]]

\* MemStackPool.beginTxn: a new connection with keepOpen = false, and a
\* transaction on it
SPoolBeginTxn(ro, cancelable) ==
  IF SPoolCheck # "none"
    THEN [err |-> SPoolCheck, conns |-> sconns, txns |-> stxns]
    ELSE [err |-> "none",
          conns |-> [sconns EXCEPT ![FreshSConn] = [NewSConn(FALSE) EXCEPT !.txns = <<FreshSTxn>>]],
          txns |-> [stxns EXCEPT ![FreshSTxn] = NewSTxn(FreshSConn, ro, cancelable)]]

\* MemStackConn.beginTxn, called by the holder of a handle
StkConnBeginTxn(c, ro) ==
  /\ engine = "stack"
  /\ SHasHandle(c)
  /\ \E t \in StkTxnIds : ~stxns[t].made
  /\ \E cancelable \in BOOLEAN :
       LET B == SConnBeginTxn(c, ro, cancelable)
       IN /\ out' = Out(B.err, Undefined)
          /\ stxns' = B.txns
          /\ sconns' = B.conns
  /\ UNCHANGED <<engine, run, kvVars, stack, stkClosed, stkActive, stkWaitClose, stkCloseP, stkSnap, spend>>

\* MemStackPool.beginTxn, called on the pool
StkPoolBeginTxn(limit, ro) ==
  /\ engine = "stack"
  /\ SConnsMade < limit
  /\ \E t \in StkTxnIds : ~stxns[t].made
  /\ \E cancelable \in BOOLEAN :
       LET B == SPoolBeginTxn(ro, cancelable)
       IN /\ out' = Out(B.err, Undefined)
          /\ stxns' = B.txns
          /\ sconns' = B.conns
  /\ UNCHANGED <<engine, run, kvVars, stack, stkClosed, stkActive, stkWaitClose, stkCloseP, stkSnap, spend>>

\* MemStackTxn.push
StkTxnPush(t) ==
  /\ engine = "stack"
  /\ stxns[t].made
  /\ Len(stxns[t].ops) < MaxOps
  /\ Len(stxns[t].snap) < MaxStack
  /\ \E v \in Vals :
       LET tx == stxns[t]
           err == SCheckStatus(tx, TRUE)
       IN /\ stxns' = [stxns EXCEPT ![t] = IF err # "none" THEN tx ELSE STxnPushOp(tx, v)]
          /\ out' = Out(err, IF err # "none" THEN Undefined ELSE Len(tx.snap) + 1)
  /\ UNCHANGED <<engine, run, kvVars, stack, stkClosed, stkActive, stkWaitClose, stkCloseP, stkSnap, sconns, spend>>

\* MemStackTxn.pop
StkTxnPop(t) ==
  /\ engine = "stack"
  /\ stxns[t].made
  /\ Len(stxns[t].ops) < MaxOps
  /\ LET tx == stxns[t]
         err == SCheckStatus(tx, TRUE)
     IN /\ stxns' = [stxns EXCEPT ![t] = IF err # "none" THEN tx ELSE STxnPopOp(tx)]
        /\ out' = Out(err, IF err # "none" THEN Undefined ELSE Top(tx.snap))
  /\ UNCHANGED <<engine, run, kvVars, stack, stkClosed, stkActive, stkWaitClose, stkCloseP, stkSnap, sconns, spend>>

\* MemStackTxn.peek
StkTxnPeek(t) ==
  /\ engine = "stack"
  /\ stxns[t].made
  /\ LET err == SCheckStatus(stxns[t], FALSE)
     IN out' = Out(err, IF err # "none" THEN Undefined ELSE Top(stxns[t].snap))
  /\ UNCHANGED <<engine, run, kvVars, stkVars>>

\* MemStackTxn.commit and rollback past #checkStatus: done is set, commit
\* replays the operations, #complete unsubscribes the listener and runs the
\* connection's _txnDone
STxnFinishAs(t, commit, call) ==
  LET T1 == STxnDone(SBundle, stxns[t].con, t)
  IN /\ stack' = IF commit THEN Replay(stack, stxns[t].ops) ELSE stack
     /\ stxns' = [stxns EXCEPT ![t] = Completed(@)]
     /\ SInstall(T1)
     /\ out' = OutOf(call, T1.thrown, Undefined, FALSE)

\* the same, called as commit() or rollback()
STxnFinish(t, commit) == STxnFinishAs(t, commit, IF commit THEN "commit" ELSE "rollback")

\* MemStackTxn.commit and rollback
StkTxnEnd(t, commit) ==
  /\ engine = "stack"
  /\ stxns[t].made
  /\ IF stxns[t].done
       THEN /\ out' = OutOf(IF commit THEN "commit" ELSE "rollback", "TransactionComplete", Undefined, FALSE)
            /\ UNCHANGED <<stack, stxns, stkActive, stkWaitClose, stkCloseP, sconns>>
       ELSE STxnFinish(t, commit)
  /\ UNCHANGED <<engine, run, kvVars, stkClosed, stkSnap, spend>>

\* MemStackTxn.commit
StkTxnCommit(t) == StkTxnEnd(t, TRUE)

\* MemStackTxn.rollback
StkTxnRollback(t) == StkTxnEnd(t, FALSE)

\* the context a transaction was begun with is canceled: the canceler runs
\* the listener subscribed to it, MemStackTxn.#cancel, which unsubscribes
\* and calls rollback() unless the transaction is done
StkCancel(t) ==
  /\ engine = "stack"
  /\ stxns[t].made
  /\ stxns[t].sub
  /\ IF stxns[t].done
       THEN /\ stxns' = [stxns EXCEPT ![t].sub = FALSE]
            /\ out' = OutOf("cancel", "none", Undefined, FALSE)
            /\ UNCHANGED <<stack, stkActive, stkWaitClose, stkCloseP, sconns>>
       ELSE STxnFinishAs(t, FALSE, "cancel")
  /\ UNCHANGED <<engine, run, kvVars, stkClosed, stkSnap, spend>>

\* MemStackPool.close: the connections of #active it asks to close
RECURSIVE SCloseAll(_, _)
SCloseAll(T, i) ==
  IF T.thrown # "none" \/ i > Len(T.active)
    THEN T
    ELSE SCloseAll(SConnClose(T, T.active[i]), i + 1)

\* MemStackPool.close
StkPoolClose ==
  /\ engine = "stack"
  /\ IF stkClosed
       THEN UNCHANGED <<stkClosed, stkActive, stkWaitClose, stkCloseP, stkSnap, sconns>>
       ELSE /\ stkClosed' = TRUE
            /\ stkSnap' = {t \in StkTxnIds : stxns[t].made /\ ~stxns[t].done}
            /\ IF Len(stkActive) > 0
                 THEN SInstall(SCloseAll([SBundle EXCEPT !.waitClose = TRUE, !.closeP = "pending"], 1))
                 ELSE SInstall([SBundle EXCEPT !.closeP = "resolved"])
  /\ out' = Out("none", Undefined)
  /\ UNCHANGED <<engine, run, kvVars, stack, stxns, spend>>

\* ------------------------------------------------------------- runTransaction
\* the pool of the context: api 0; a connection of the context: its id

\* a runTransaction that does not test for a missing callback
RunArgsErrorNoFn(hasApi, args) == IF ~hasApi THEN "NoStorageApi" ELSE "none"

\* runTransaction: the tests of its arguments; args is "fn" for (ctx, fn),
\* "opts,fn" for (ctx, opts, fn) and "opts" for a call without a function
RunArgsError(hasApi, args) ==
  IF ~hasApi THEN "NoStorageApi" ELSE IF args = "opts" THEN "MissingCallback" ELSE "none"

\* runTransaction up to the callback: getStorageApi(ctx), cn.beginTxn(ctx,
\* opts) on the pool or the connection, withStorageApi(ctx, txn), fn(childCtx,
\* txn); a beginTxn that throws rejects the call. api -1: the context has no
\* storage API. A call whose callback is missing and whose argument tests
\* passed begins the transaction and fails on calling fn, as a callback that
\* rejects does.
RunTransaction ==
  /\ engine = "stack"
  /\ run.phase = "none"
  /\ \E t \in StkTxnIds : ~stxns[t].made
  /\ \E api \in {-1, 0} \cup {c \in ConnIds : SHasHandle(c)}, args \in {"fn", "opts,fn", "opts"}, ro \in BOOLEAN, cancelable \in BOOLEAN :
       /\ api = 0 => SConnsMade < MaxCount
       /\ args = "fn" => ~ro
       /\ LET argErr == RunArgsError(api # -1, args)
              B == IF argErr # "none" \/ api = -1
                     THEN [err |-> IF argErr # "none" THEN argErr ELSE "TypeError", conns |-> sconns, txns |-> stxns]
                     ELSE IF api = 0 THEN SPoolBeginTxn(ro, cancelable) ELSE SConnBeginTxn(api, ro, cancelable)
          IN /\ stxns' = B.txns
             /\ sconns' = B.conns
             /\ out' = OutOf(IF argErr # "none" THEN "runTransaction" ELSE "beginTxn", B.err, Undefined, FALSE)
             /\ run' = IF B.err # "none"
                         THEN [NoRun EXCEPT !.phase = "rejected", !.api = api, !.args = args, !.err = B.err]
                         ELSE [NoRun EXCEPT !.phase = "callback", !.api = api, !.args = args, !.txn = FreshSTxn, !.bound = FreshSTxn]
  /\ UNCHANGED <<engine, kvVars, stack, stkClosed, stkActive, stkWaitClose, stkCloseP, stkSnap, spend>>

\* the transaction the running callback was handed: the innermost one's
RunCur == IF run.inner = <<>> THEN run.txn ELSE run.inner[Len(run.inner)].txn

\* the context the running callback was handed
RunCtx == IF run.inner = <<>> THEN 1 ELSE run.inner[Len(run.inner)].ctx

\* the callback is running: the call has a callback and awaits it
RunInCallback == run.phase = "callback" /\ run.args # "opts"

\* the callback pushes onto the transaction it was handed
RunPush == RunInCallback /\ StkTxnPush(RunCur)

\* the callback pops from the transaction it was handed
RunPop == RunInCallback /\ StkTxnPop(RunCur)

\* the callback peeks at the transaction it was handed
RunPeek == RunInCallback /\ StkTxnPeek(RunCur)

\* the callback itself commits or rolls back the transaction it was handed
RunCallbackEnds == RunInCallback /\ \E commit \in BOOLEAN : StkTxnEnd(RunCur, commit)

\* a runTransaction that reuses no transaction
RunReusesNever(mode) == FALSE

\* runTransaction: the test `api.mode == StorageMode.txn`
RunReuses(mode) == mode = "txn"

\* the callback calls runTransaction with the context it was handed, whose
\* storage API is a transaction: `return fn(ctx, txn)`. Past the test of the
\* mode, cn.beginTxn is not a function of a transaction.
RunNested ==
  /\ engine = "stack"
  /\ RunInCallback
  /\ Len(run.inner) < MaxNest
  /\ LET ctx == RunCtx
         api == run.bound
     IN IF RunReuses("txn")
          THEN /\ run' = [run EXCEPT !.inner = Append(@, [ctx |-> ctx, txn |-> api, base |-> Len(stxns[api].ops)])]
               /\ out' = OutOf("runTransaction", "none", Undefined, FALSE)
          ELSE /\ run' = run
               /\ out' = OutOf("runTransaction", "TypeError", Undefined, FALSE)
  /\ UNCHANGED <<engine, kvVars, stkVars>>

\* the callback of a nested runTransaction settles, and with it the promise
\* the nested call returned
RunNestedSettle ==
  /\ engine = "stack"
  /\ RunInCallback
  /\ run.inner # <<>>
  /\ run' = [run EXCEPT !.inner = SubSeq(@, 1, Len(@) - 1)]
  /\ \E ok \in BOOLEAN : out' = OutOf("runTransaction", IF ok THEN "none" ELSE "CallbackError", Undefined, FALSE)
  /\ UNCHANGED <<engine, kvVars, stkVars>>

\* a runTransaction that always rolls back
RunCommitsNever(ok) == FALSE

\* a runTransaction that commits whatever the callback did
RunCommitsAlways(ok) == TRUE

\* runTransaction once the callback has settled: commit in the try block
\* when it resolved, rollback in the catch block when it rejected
RunCommits(ok) == ok

\* a catch block that always rethrows the error it caught
RunRejectionCaught(e, rollbackErr) == e

\* runTransaction's catch block, `await txn.rollback(); throw e`: the error
\* the call rejects with is the rollback's when rollback throws, e otherwise
RunRejection(e, rollbackErr) == IF rollbackErr # "none" THEN rollbackErr ELSE e

\* runTransaction's try and catch blocks: the calls it makes on the
\* transaction. `await txn.commit()` stands inside the try block, so a
\* commit() that throws is caught and followed by txn.rollback().
RunCalls(commits, commitErr) ==
  IF commits
    THEN IF commitErr # "none" THEN <<"commit", "rollback">> ELSE <<"commit">>
    ELSE <<"rollback">>

\* runTransaction after `await fn(childCtx, txn)`: commit, or rollback and
\* rethrow; the commit of a finished transaction throws, and so does the
\* rollback of the catch block. The error of a callback that rejected is
\* "CallbackError".
RunSettle(ok) ==
  /\ engine = "stack"
  /\ run.phase = "callback"
  /\ run.inner = <<>>
  /\ run.args = "opts" => ~ok
  /\ LET t == run.txn IN
       IF stxns[t].done
         THEN /\ out' = OutOf(IF RunCommits(ok) THEN "commit" ELSE "rollback", "TransactionComplete", Undefined, FALSE)
              /\ run' = [run EXCEPT !.phase = "rejected",
                                    !.calls = RunCalls(RunCommits(ok), "TransactionComplete"),
                                    !.err = RunRejection(IF ok THEN "TransactionComplete" ELSE "CallbackError", "TransactionComplete")]
              /\ UNCHANGED <<stack, stxns, stkActive, stkWaitClose, stkCloseP, sconns>>
         ELSE /\ STxnFinish(t, RunCommits(ok))
              /\ run' = [run EXCEPT !.phase = IF ok /\ out'.err = "none" THEN "resolved" ELSE "rejected",
                                    !.ops = stxns[t].ops,
                                    !.calls = RunCalls(RunCommits(ok), out'.err),
                                    !.err = IF ok
                                              THEN IF out'.err = "none" THEN "none" ELSE RunRejection(out'.err, "TransactionComplete")
                                              ELSE RunRejection("CallbackError", out'.err)]
  /\ UNCHANGED <<engine, kvVars, stkClosed, stkSnap, spend>>

\* the callback resolves
RunCallbackResolves == RunSettle(TRUE)

\* the callback rejects
RunCallbackRejects == RunSettle(FALSE)

\* getPool(store, maxCnt)
InitKv ==
  /\ engine = "kv"
  /\ maxCnt \in 1..MaxCount
  /\ closed = FALSE
  /\ active = <<>>
  /\ pool = <<>>
  /\ reqQueue = <<>>
  /\ conns = [c \in ConnIds |-> NoConn]
  /\ reqs = [r \in ReqIds |-> NoReq]
  /\ store \in [Keys -> {Undefined} \cup Vals]
  /\ txns = [t \in TxnIds |-> NoTxn]
  /\ closeP = [state |-> "none", awaits |-> {}, snapActive |-> <<>>, snapQueue |-> <<>>, snapTxns |-> {}]
  /\ out = Out("none", Undefined)
  /\ run = NoRun
  /\ stack = <<>>
  /\ stkClosed = FALSE
  /\ stkActive = <<>>
  /\ stkWaitClose = FALSE
  /\ stkCloseP = "none"
  /\ stkSnap = {}
  /\ sconns = [c \in ConnIds |-> NoSConn]
  /\ stxns = [t \in StkTxnIds |-> NoSTxn]
  /\ spend = <<>>

\* openStackPool(stack)
InitStack ==
  /\ engine = "stack"
  /\ stack \in {<<>>, <<1>>}
  /\ stkClosed = FALSE
  /\ stkActive = <<>>
  /\ stkWaitClose = FALSE
  /\ stkCloseP = "none"
  /\ stkSnap = {}
  /\ sconns = [c \in ConnIds |-> NoSConn]
  /\ stxns = [t \in StkTxnIds |-> NoSTxn]
  /\ spend = <<>>
  /\ out = Out("none", Undefined)
  /\ run = NoRun
  /\ maxCnt = 1
  /\ closed = FALSE
  /\ active = <<>>
  /\ pool = <<>>
  /\ reqQueue = <<>>
  /\ conns = [c \in ConnIds |-> NoConn]
  /\ reqs = [r \in ReqIds |-> NoReq]
  /\ store = [k \in Keys |-> Undefined]
  /\ txns = [t \in TxnIds |-> NoTxn]
  /\ closeP = [state |-> "none", awaits |-> {}, snapActive |-> <<>>, snapQueue |-> <<>>, snapTxns |-> {}]

\* the stack pool and connection lifecycle: every call but the push, pop
\* and peek of connections and transactions
NextStack ==
  \/ StkPoolConn(MaxCount)
  \/ StkPoolOp
  \/ StkPoolOpResume
  \/ StkPoolBeginTxn(MaxCount, FALSE)
  \/ \E c \in ConnIds : StkConnClose(c)
  \/ \E c \in ConnIds : StkConnBeginTxn(c, FALSE)
  \/ \E t \in StkTxnIds : StkTxnCommit(t)
  \/ \E t \in StkTxnIds : StkTxnRollback(t)
  \/ \E t \in StkTxnIds : StkCancel(t)
  \/ StkPoolClose

\* the pool and connection lifecycle: every call but the writes of
\* connections and transactions
NextKv ==
  \/ PoolConn(MaxReq)
  \/ PoolGet
  \/ PoolSet
  \/ PoolDelete
  \/ PoolBeginTxn(MaxReq, MaxTxn, FALSE)
  \/ \E r \in ReqIds : ReceiveConn(r)
  \/ \E r \in ReqIds : ReceiveCrud(r)
  \/ \E r \in ReqIds : ReceiveBeginTxn(r)
  \/ \E r \in ReqIds : Cancel(r)
  \/ \E r \in ReqIds : HandleClose(r)
  \/ \E r \in ReqIds : ConnBeginTxn(r, MaxTxn, FALSE)
  \/ \E t \in TxnIds : TxnCommit(t)
  \/ \E t \in TxnIds : TxnRollback(t)
  \/ PoolClose
  \/ PoolCloseSettle

\* every variable
vars == <<engine, kvVars, stkVars, out, run>>

Init == InitKv \/ InitStack

Next == NextKv \/ NextStack

Spec == Init /\ [][Next]_vars

\* the specification of the connection requests alone: conn(), cancellation,
\* close() of a connection and of the pool, with one more call than Spec
NextConn ==
  \/ PoolConn(MaxConnReq)
  \/ \E r \in ReqIds : ReceiveConn(r)
  \/ \E r \in ReqIds : Cancel(r)
  \/ \E r \in ReqIds : HandleClose(r)
  \/ PoolClose
  \/ PoolCloseSettle

SpecConn == InitKv /\ [][NextConn]_vars

\* the specification of the data: reads and writes through connections and
\* transactions, read-only transactions included, on fewer calls than Spec
NextKvData ==
  \/ PoolConn(MaxReq - 1)
  \/ \E ro \in BOOLEAN : PoolBeginTxn(MaxReq - 1, MaxTxn + 1, ro)
  \/ \E r \in ReqIds : ReceiveConn(r)
  \/ \E r \in ReqIds : ReceiveBeginTxn(r)
  \/ \E r \in ReqIds : ConnGet(r)
  \/ \E r \in ReqIds : ConnSet(r)
  \/ \E r \in ReqIds : ConnDelete(r)
  \/ \E r \in ReqIds, ro \in BOOLEAN : ConnBeginTxn(r, MaxTxn + 1, ro)
  \/ \E t \in TxnIds : TxnGet(t)
  \/ \E t \in TxnIds : TxnSet(t)
  \/ \E t \in TxnIds : TxnDelete(t)
  \/ \E t \in TxnIds : TxnCommit(t)
  \/ \E t \in TxnIds : TxnRollback(t)
  \/ \E t \in TxnIds : TxnCtxCancel(t)

NextStackData ==
  \/ StkPoolConn(MaxCount - 1)
  \/ \E ro \in BOOLEAN : StkPoolBeginTxn(MaxCount, ro)
  \/ \E c \in ConnIds : StkConnOp(c)
  \/ \E c \in ConnIds, ro \in BOOLEAN : StkConnBeginTxn(c, ro)
  \/ \E t \in StkTxnIds : StkTxnPush(t)
  \/ \E t \in StkTxnIds : StkTxnPop(t)
  \/ \E t \in StkTxnIds : StkTxnPeek(t)
  \/ \E t \in StkTxnIds : StkTxnCommit(t)
  \/ \E t \in StkTxnIds : StkTxnRollback(t)

NextData == NextKvData \/ NextStackData

\* the specification of the pool-level reads and writes that wait for a
\* connection while its holder reads, writes and closes it
NextWait ==
  \/ PoolConn(MaxReq)
  \/ PoolGet
  \/ PoolSet
  \/ PoolDelete
  \/ \E r \in ReqIds : ReceiveConn(r)
  \/ \E r \in ReqIds : ReceiveCrud(r)
  \/ \E r \in ReqIds : Cancel(r)
  \/ \E r \in ReqIds : ConnGet(r)
  \/ \E r \in ReqIds : ConnSet(r)
  \/ \E r \in ReqIds : ConnDelete(r)
  \/ \E r \in ReqIds : CloseAwait(r)
  \/ \E r \in ReqIds : CloseResume(r)

SpecWait == InitKv /\ [][NextWait]_vars

SpecData == Init /\ [][NextData]_vars

\* the specification of held connections: reads, writes and transactions
\* on connections, transactions on transient connections, and close() on
\* connections and on the pool
NextHold ==
  \/ PoolConn(MaxReq - 1)
  \/ PoolBeginTxn(MaxReq - 1, MaxTxn + 1, FALSE)
  \/ \E r \in ReqIds : ReceiveConn(r)
  \/ \E r \in ReqIds : ReceiveBeginTxn(r)
  \/ \E r \in ReqIds : ConnGet(r)
  \/ \E r \in ReqIds : ConnSet(r)
  \/ \E r \in ReqIds : ConnDelete(r)
  \/ \E r \in ReqIds : ConnBeginTxn(r, MaxTxn + 1, FALSE)
  \/ \E t \in TxnIds : TxnSet(t)
  \/ \E t \in TxnIds : TxnCommit(t)
  \/ \E t \in TxnIds : TxnRollback(t)
  \/ \E r \in ReqIds : HandleClose(r)
  \/ PoolClose
  \/ PoolCloseSettle

SpecHold == InitKv /\ [][NextHold]_vars

\* the specification of waiting for a connection: conn() and beginTxn()
\* calls on the pool, cancellation, the close of connections, the end of
\* transactions and the close of the pool
NextLive ==
  \/ PoolConn(MaxReq)
  \/ PoolBeginTxn(MaxReq, MaxTxn, FALSE)
  \/ \E r \in ReqIds : ReceiveConn(r)
  \/ \E r \in ReqIds : ReceiveBeginTxn(r)
  \/ \E r \in ReqIds : Cancel(r)
  \/ \E r \in ReqIds : HandleClose(r)
  \/ \E t \in TxnIds : TxnCommit(t)
  \/ \E t \in TxnIds : TxnRollback(t)
  \/ PoolClose
  \/ PoolCloseSettle

\* the callers are well behaved: a caller whose promise was resolved
\* resumes (promise jobs always run), the holder of a connection closes it
\* in the end, and an open transaction is committed or rolled back in the end
FairLive ==
  /\ \A r \in ReqIds : WF_vars(ReceiveConn(r))
  /\ \A r \in ReqIds : WF_vars(ReceiveBeginTxn(r))
  /\ \A r \in ReqIds : WF_vars(reqs[r].phase = "held" /\ HandleClose(r))
  /\ \A t \in TxnIds : WF_vars(~txns[t].done /\ (TxnCommit(t) \/ TxnRollback(t)))

SpecLive == InitKv /\ [][NextLive]_vars /\ FairLive

\* the specification of runTransaction on the stack pool: one call, on the
\* pool or on a connection, while other callers use connections, cancel the
\* context and close the pool
NextRun ==
  \/ StkPoolConn(MaxCount - 1)
  \/ \E c \in ConnIds : StkConnOp(c)
  \/ \E c \in ConnIds : StkConnClose(c)
  \/ \E t \in StkTxnIds : StkCancel(t)
  \/ StkPoolClose
  \/ RunTransaction
  \/ RunPush
  \/ RunPop
  \/ RunPeek
  \/ RunCallbackEnds
  \/ RunNested
  \/ RunNestedSettle
  \/ RunCallbackResolves
  \/ RunCallbackRejects

SpecRun == InitStack /\ [][NextRun]_vars

\* the specification of reads and writes through connections that are open
\* or closed, next to reads through other connections and through the pool
NextCrud ==
  \/ PoolConn(MaxReq)
  \/ PoolGet
  \/ \E r \in ReqIds : ReceiveConn(r)
  \/ \E r \in ReqIds : ReceiveCrud(r)
  \/ \E r \in ReqIds : ConnGet(r)
  \/ \E r \in ReqIds : ConnSet(r)
  \/ \E r \in ReqIds : ConnDelete(r)
  \/ \E r \in ReqIds : HandleClose(r)
  \/ StkPoolConn(MaxCount)
  \/ StkPoolOp
  \/ StkPoolOpResume
  \/ \E c \in ConnIds : StkConnOp(c)
  \/ \E c \in ConnIds : StkConnClose(c)

SpecCrud == Init /\ [][NextCrud]_vars

\* ------------------------------------------------------------- claims

\* C1: after any sequence of calls on a MemKvPool the number of active
\* connections is at most the maxCount the pool was created with.
C1_ActiveWithinMax == engine = "kv" => Len(active) <= maxCnt

\* the pool is full and a further request is waiting
C1_Witness == engine = "kv" /\ maxCnt = MaxCount /\ Len(active) = maxCnt /\ reqQueue # <<>>

\* C2: on a fresh MemKvPool with maxCount = n the first n conn() calls are
\* granted at once: a call is left pending only while n connections are
\* active and none is idle; and a pending call stays pending until a step
\* that closes one of the active connections hands that connection to it
\* (or until its context is canceled).
C2_BlocksUntilRelease ==
  [][\A r \in ReqIds :
       /\ reqs'[r].phase = "wait" => Len(active') = maxCnt /\ pool' = <<>>
       /\ reqs[r].phase = "wait" /\ reqs'[r].phase # "wait" /\ ~reqs'[r].timedOut
            => /\ reqs'[r].phase = "granted"
               /\ InSeq(reqs'[r].con, active)
               /\ \/ \E q \in ReqIds : HandleClose(q) \/ ReceiveCrud(q)
                  \/ \E t \in TxnIds : TxnCommit(t) \/ TxnRollback(t)
                  \/ PoolClose]_vars

\* a request that had to wait has been granted a connection of a full pool
C2_Witness == \E r \in ReqIds : reqs[r].phase = "granted" /\ reqs[r].waited /\ maxCnt = MaxCount /\ Len(active) = maxCnt

\* C3: waiters are served first in, first out: a release grants the
\* connection to a waiting request only if no request that was queued before
\* it is still waiting afterwards.
C3_Fifo ==
  [][\A q, r \in ReqIds :
       q < r /\ reqs[q].phase = "wait" /\ reqs[r].phase = "wait" /\ reqs'[r].phase = "granted"
         => reqs'[q].phase # "wait"]_vars

\* with one connection, the first two of three waiters have been served in
\* order and the third is still waiting
C3_Witness ==
  /\ maxCnt = 1
  /\ reqs[2].phase = "closed"
  /\ reqs[3].phase = "granted" /\ reqs[3].waited
  /\ reqs[4].phase = "wait"

\* C4: a request canceled while it waits is rejected with 'Context was
\* canceled before a connection was available' at that step, and from then
\* on nothing changes it: it is never granted a connection, whatever is
\* released later.
C4_CanceledNeverGranted ==
  [][\A r \in ReqIds :
       /\ ~reqs[r].timedOut /\ reqs'[r].timedOut
            => reqs[r].phase = "wait" /\ reqs'[r].phase = "settled" /\ reqs'[r].con = 0 /\ out'.err = "ContextCanceled"
       /\ reqs[r].timedOut => reqs'[r] = reqs[r]]_vars

\* a canceled request has been reached by a later release and passed over:
\* the connection is idle again
C4_Witness == \E r \in ReqIds : reqs[r].timedOut /\ ~InSeq(r, reqQueue) /\ pool # <<>>

\* C5: every connection in the active list has a holder: a request it was
\* granted to and that has not closed it, or an open transaction on it. A
\* connection that return() hands to a canceled waiter does not stay active
\* without one.
C5_ActiveHasHolder ==
  engine = "kv" =>
    \A i \in 1..Len(active) :
      \/ \E r \in ReqIds : reqs[r].con = active[i] /\ reqs[r].phase \in {"granted", "held"}
      \/ \E t \in TxnIds : txns[t].made /\ ~txns[t].done /\ txns[t].con = active[i]

\* a release skipped a canceled waiter and granted the next one
C5_Witness ==
  \E q, r \in ReqIds :
    q < r /\ reqs[q].timedOut /\ ~InSeq(q, reqQueue) /\ reqs[r].phase = "granted" /\ reqs[r].waited

\* C6 as stated: once a waiting request is canceled the waiter queue no
\* longer contains it.
C6_Stated == \A r \in ReqIds : reqs[r].timedOut => ~InSeq(r, reqQueue)

\* C6 as the code has it: the cancellation rejects the request at that step
\* and leaves the waiter queue as it is; the canceled request leaves the queue
\* only when a release shifts it off the head, together with everything that
\* was queued before it, and it is not changed by that.
C6_CanceledStaysQueued ==
  [][\A r \in ReqIds :
       /\ reqs[r].phase = "wait" /\ reqs'[r].timedOut
            => out'.err = "ContextCanceled" /\ reqQueue' = reqQueue
       /\ reqs[r].timedOut /\ InSeq(r, reqQueue) /\ ~InSeq(r, reqQueue')
            => /\ reqs'[r] = reqs[r]
               /\ \A q \in ReqIds : InSeq(q, reqQueue) /\ IndexOf(reqQueue, q) < IndexOf(reqQueue, r) => ~InSeq(q, reqQueue')]_vars

\* a canceled request is still in the waiter queue
C6_Witness == \E r \in ReqIds : reqs[r].timedOut /\ InSeq(r, reqQueue)

\* C7: once the close() of a MemKvPool with k active connections, no waiter
\* queued and no transaction begun has resolved, each of the k connections
\* is closed and none of them is in the active list.
C7_CloseClosesAll ==
  /\ closeP.state = "resolved"
  /\ closeP.snapQueue = <<>>
  /\ \A t \in TxnIds : ~txns[t].made
  /\ \A r \in ReqIds : reqs[r].kind # "beginTxn"
  => \A i \in 1..Len(closeP.snapActive) :
       conns[closeP.snapActive[i]].closed /\ ~InSeq(closeP.snapActive[i], active)

\* C8: once a pool is closed it stays closed, and every later conn(),
\* beginTxn() and pool-level read or write fails with 'Pool is closed' and
\* changes neither the connection lists, nor the connections, nor the data.
C8_ClosedPoolRefuses ==
  [][/\ closed =>
          /\ closed'
          /\ (\E r \in ReqIds : reqs[r].phase = "new" /\ reqs'[r].phase # "new")
               => out'.err = "PoolClosed" /\ UNCHANGED <<active, pool, reqQueue, conns, store, txns>>
     /\ stkClosed =>
          /\ stkClosed'
          /\ StkPoolConn(MaxCount) \/ StkPoolOp \/ StkPoolBeginTxn(MaxCount, FALSE)
               => out'.err = "PoolClosed" /\ UNCHANGED <<stack, stkActive, sconns, stxns, spend>>]_vars

\* a call on a closed key-value pool has failed while connections were active
C8_Witness == engine = "kv" /\ closed /\ out.err = "PoolClosed" /\ Len(active) > 0

\* C9: while the promise of Pool.close() is resolved, no transaction that was
\* open when close() was called is still open and no connection obtained
\* before the call is still open.
C9_CloseWaits ==
  /\ closeP.state = "resolved"
       => /\ \A t \in closeP.snapTxns : txns[t].done
          /\ \A i \in 1..Len(closeP.snapActive) : conns[closeP.snapActive[i]].closed
  /\ stkCloseP = "resolved"
       => /\ \A t \in stkSnap : stxns[t].done
          /\ \A c \in ConnIds : sconns[c].made => sconns[c].closed

\* C10: a step in which an open transaction buffers a write (MemKvTxn set or
\* delete, MemStackTxn push or pop) makes the write visible to the reads of
\* that transaction, leaves the shared store or stack as it was, so that no
\* connection reads it, and changes what no other transaction reads.
C10_Isolation ==
  [][/\ \A t \in TxnIds :
          txns[t].made /\ ~txns'[t].done /\ txns'[t].ops # txns[t].ops
            => LET op == txns'[t].ops[Len(txns'[t].ops)] IN
               /\ TxnRead(txns'[t], store', op.key) = op.val
               /\ store' = store
               /\ \A u \in TxnIds \ {t}, k \in Keys :
                    txns[u].made /\ ~txns[u].done
                      => TxnRead(txns'[u], store', k) = TxnRead(txns[u], store, k)
     /\ \A t \in StkTxnIds :
          stxns[t].made /\ ~stxns'[t].done /\ stxns'[t].ops # stxns[t].ops
            => LET op == stxns'[t].ops[Len(stxns'[t].ops)] IN
               /\ op.op = "push" => Top(stxns'[t].snap) = op.val
               /\ op.op = "pop" => stxns'[t].snap = PopSeq(stxns[t].snap)
               /\ stack' = stack
               /\ \A u \in StkTxnIds \ {t} : stxns'[u] = stxns[u]]_vars

\* a transaction reads its own buffered write where the store and another
\* open transaction still read the old value
C10_Witness ==
  \E t, u \in TxnIds, k \in Keys :
    /\ t # u
    /\ txns[t].made /\ ~txns[t].done /\ txns[u].made /\ ~txns[u].done
    /\ txns[t].ops # <<>>
    /\ TxnRead(txns[t], store, k) # store[k]
    /\ TxnRead(txns[u], store, k) = store[k]

\* C11: rollback() discards the buffered writes: no call on an open
\* transaction other than commit() changes the shared store or stack, so
\* that, when nothing else writes in between, the store after rollback() is
\* the store the transaction was begun on.
C11_RollbackDiscards ==
  [][/\ \A t \in TxnIds :
          txns[t].made /\ ~txns[t].done /\ (TxnGet(t) \/ TxnSet(t) \/ TxnDelete(t) \/ TxnRollback(t))
            => store' = store
     /\ \A t \in StkTxnIds :
          stxns[t].made /\ ~stxns[t].done /\ (StkTxnPeek(t) \/ StkTxnPush(t) \/ StkTxnPop(t) \/ StkTxnRollback(t))
            => stack' = stack]_vars

\* the only transaction was rolled back with buffered writes that would have
\* changed the store
C11_Witness ==
  /\ out.call = "rollback" /\ out.err = "none"
  /\ \E t \in TxnIds :
       /\ \A u \in TxnIds : txns[u].made <=> u = t
       /\ txns[t].done
       /\ txns[t].ops # <<>>
       /\ ApplyOps(store, txns[t].ops) # store

\* C12: commit() replays the buffered operations in order. The key-value
\* store after commit() reads, for every key, what the transaction read just
\* before. A stack transaction's staged view equals the replay of its
\* operations on the shared stack when it is begun, every push and pop of the
\* transaction keeps that so while the shared stack is not written, and a
\* commit() in that situation leaves the staged view on the shared stack.
C12_CommitReplays ==
  [][/\ \A t \in TxnIds :
          txns[t].made /\ ~txns[t].done /\ TxnCommit(t)
            => \A k \in Keys : store'[k] = TxnRead(txns[t], store, k)
     /\ \A t \in StkTxnIds :
          /\ ~stxns[t].made /\ stxns'[t].made => Replay(stack', stxns'[t].ops) = stxns'[t].snap
          /\ stxns[t].made /\ ~stxns'[t].done /\ Replay(stack, stxns[t].ops) = stxns[t].snap /\ stack' = stack
               => Replay(stack', stxns'[t].ops) = stxns'[t].snap
          /\ stxns[t].made /\ ~stxns[t].done /\ Replay(stack, stxns[t].ops) = stxns[t].snap /\ StkTxnCommit(t)
               => stack' = stxns[t].snap]_vars

\* the only transaction was committed with a set and a delete of one key, and
\* the store holds what the later of the two left
C12_Witness ==
  /\ out.call = "commit" /\ out.err = "none"
  /\ \E t \in TxnIds :
       /\ \A u \in TxnIds : txns[u].made <=> u = t
       /\ txns[t].done
       /\ Len(txns[t].ops) > 1
       /\ LET first == txns[t].ops[1]
              last == txns[t].ops[Len(txns[t].ops)]
          IN first.key = last.key /\ first.type # last.type /\ store[last.key] = last.val

\* C13: in a read-only transaction every set, delete, push and pop fails with
\* the read-only error and changes neither the transaction nor the shared
\* store or stack; the operation buffer of a read-only transaction stays
\* empty and its commit() leaves the shared store or stack as it was.
C13_ReadOnly ==
  [][/\ \A t \in TxnIds :
          txns[t].made /\ txns[t].readonly /\ ~txns[t].done
            => /\ txns[t].ops = <<>>
               /\ TxnSet(t) \/ TxnDelete(t)
                    => out'.err = "TransactionReadOnly" /\ txns' = txns /\ store' = store
               /\ TxnCommit(t) => store' = store
     /\ \A t \in StkTxnIds :
          stxns[t].made /\ stxns[t].readonly /\ ~stxns[t].done
            => /\ stxns[t].ops = <<>>
               /\ StkTxnPush(t) \/ StkTxnPop(t)
                    => out'.err = "TransactionReadOnly" /\ stxns' = stxns /\ stack' = stack
               /\ StkTxnCommit(t) => stack' = stack]_vars

\* a write on an open read-only key-value transaction has been refused
C13_Witness ==
  /\ engine = "kv"
  /\ out.err = "TransactionReadOnly"
  /\ \E t \in TxnIds : txns[t].made /\ txns[t].readonly /\ ~txns[t].done

\* C14: a finished transaction stays finished, and every commit(), rollback(),
\* read and write on it fails with 'Transaction is already complete' and
\* leaves the transaction and the shared store or stack as they were.
C14_DoneTerminal ==
  [][/\ \A t \in TxnIds :
          txns[t].done
            => /\ txns'[t] = txns[t]
               /\ TxnGet(t) \/ TxnSet(t) \/ TxnDelete(t) \/ TxnCommit(t) \/ TxnRollback(t)
                    => out'.err = "TransactionComplete" /\ store' = store
     /\ \A t \in StkTxnIds :
          stxns[t].done
            => /\ stxns'[t].done /\ stxns'[t].ops = stxns[t].ops /\ stxns'[t].snap = stxns[t].snap
               /\ StkTxnPeek(t) \/ StkTxnPush(t) \/ StkTxnPop(t) \/ StkTxnCommit(t) \/ StkTxnRollback(t)
                    => out'.err = "TransactionComplete" /\ stack' = stack]_vars

\* a second commit() or rollback() on a finished transaction has failed
C14_Witness ==
  /\ out.call \in {"commit", "rollback"}
  /\ out.err = "TransactionComplete"
  /\ \E t \in TxnIds : txns[t].done

\* C15: a close() of a MemKvConn on which a transaction is open does not
\* return the connection: the connection stays in the active list, the idle
\* list and the waiter queue are as before, and the promise of close() is
\* pending.
C15_CloseDefersToTxn ==
  [][\A r \in ReqIds :
       /\ HasHandle(r)
       /\ ~conns[reqs[r].con].closed
       /\ \E t \in TxnIds : txns[t].made /\ ~txns[t].done /\ txns[t].con = reqs[r].con
       /\ HandleClose(r)
       => /\ InSeq(reqs[r].con, active')
          /\ pool' = pool
          /\ reqQueue' = reqQueue
          /\ conns'[reqs[r].con].waitClose]_vars

\* C16: the connection of a transaction begun with MemKvPool.beginTxn is in
\* the active list for as long as the transaction is open, and the commit()
\* or rollback() of the transaction releases it: afterwards it is out of the
\* active list or granted to a request that was waiting.
C16_TransientConn ==
  [][\A t \in TxnIds :
       /\ txns'[t].made /\ ~txns'[t].done /\ ~conns'[txns'[t].con].keepOpen
            => InSeq(txns'[t].con, active')
       /\ txns[t].made /\ ~txns[t].done /\ ~conns[txns[t].con].keepOpen /\ txns'[t].done
            => \/ ~InSeq(txns[t].con, active')
               \/ \E r \in ReqIds : reqs[r].phase = "wait" /\ reqs'[r].phase = "granted" /\ reqs'[r].con = txns[t].con]_vars

\* C17: when a pool-level get, set or delete settles, the connection it used
\* is not left with it: the connection is out of the active list, or another
\* request holds it.
C17_PoolOpReleases ==
  [][\A r \in ReqIds :
       reqs[r].kind \in {"get", "set", "delete"} /\ reqs[r].phase = "granted" /\ reqs'[r].phase = "settled"
         => \/ ~InSeq(reqs[r].con, active')
            \/ \E q \in ReqIds \ {r} : reqs'[q].con = reqs[r].con /\ reqs'[q].phase \in {"granted", "held"}]_vars

\* a pool-level call has succeeded and its connection is idle
C17_Witness ==
  /\ out.call \in {"get", "set", "delete"}
  /\ out.err = "none"
  /\ active = <<>>
  /\ pool # <<>>

\* C18: a pool.get() that waits for a connection stays pending until a step
\* that closes a connection hands it one, and its continuation returns the
\* value the shared store holds for the key at that time, whatever was
\* written to it before, and leaves the store as it is.
C18_GetAfterWait ==
  [][\A r \in ReqIds :
       /\ reqs[r].kind = "get" /\ reqs[r].phase = "wait" /\ reqs'[r].phase # "wait" /\ ~reqs'[r].timedOut
            => /\ reqs'[r].phase = "granted"
               /\ \E q \in ReqIds : CloseAwait(q) \/ ReceiveCrud(q)
       /\ reqs[r].kind = "get" /\ reqs[r].phase = "granted" /\ reqs'[r].phase = "settled"
            => /\ out' = OutOf("get", "none", store[reqs[r].key], reqs[r].waited)
               /\ store' = store]_vars

\* with one connection, a get that had to wait has returned a value after the
\* holder closed the connection
C18_Witness ==
  /\ maxCnt = 1
  /\ out.call = "get" /\ out.waited /\ out.err = "none"
  /\ out.result # Undefined
  /\ \E q \in ReqIds : reqs[q].kind = "conn" /\ reqs[q].phase \in {"closing", "closed"}

\* C19: a pool-level set or delete that waits for a connection writes nothing:
\* the store changes only in a write through a held connection or in the
\* continuation of a call that has been granted a connection. That
\* continuation applies the write. And when the caller of an awaited close()
\* resumes, the set or delete that was first in the waiter queue when close()
\* was called has been applied and has settled.
C19_WriteAfterWait ==
  [][/\ store' # store
          => \E q \in ReqIds :
               \/ HasHandle(q) /\ (ConnSet(q) \/ ConnDelete(q))
               \/ reqs[q].phase = "granted" /\ reqs'[q].phase = "settled"
     /\ \A r \in ReqIds :
          reqs[r].kind \in {"set", "delete"} /\ reqs[r].phase = "granted" /\ reqs'[r].phase = "settled"
            => out'.err = "none" /\ store' = CrudStore(reqs[r].kind, reqs[r].key, reqs[r].val)
     /\ \A q \in ReqIds :
          reqs[q].phase = "closing" /\ reqs'[q].phase = "closed" /\ reqs[q].head # 0
            => reqs[reqs[q].head].phase = "settled"]_vars

\* the caller of an awaited close() has resumed, and the set or delete that
\* was waiting when it called close() has settled
C19_Witness ==
  /\ out.call = "close"
  /\ \E q \in ReqIds :
       /\ reqs[q].phase = "closed"
       /\ reqs[q].head # 0
       /\ reqs[reqs[q].head].phase = "settled"

\* C20: when runTransaction is called on a pool or a connection, it begins
\* exactly one transaction and hands its callback a context whose storage
\* API is that transaction; no push or pop the callback makes changes the
\* shared stack; and when the callback has resolved and runTransaction
\* resolves, it has committed: the shared stack is what replaying the
\* callback's buffered pushes and pops on it gives, and the transaction is
\* done.
C20_RunTransaction ==
  [][/\ (RunTransaction /\ run'.phase = "callback")
         => /\ {t \in StkTxnIds : stxns'[t].made} = {t \in StkTxnIds : stxns[t].made} \cup {run'.txn}
            /\ ~stxns[run'.txn].made
            /\ run'.bound = run'.txn
            /\ stxns'[run'.txn].ops = <<>>
            /\ ~stxns'[run'.txn].done
            /\ stack' = stack
     /\ (RunPush \/ RunPop)
         => /\ stack' = stack
            /\ run' = run
            /\ (out'.err = "none" => Len(stxns'[run.txn].ops) = Len(stxns[run.txn].ops) + 1)
     /\ (RunCallbackResolves /\ run'.phase = "resolved")
         => /\ stack' = Replay(stack, stxns[run.txn].ops)
            /\ run'.ops = stxns[run.txn].ops
            /\ stxns'[run.txn].done
     /\ (run.phase = "callback" /\ run'.phase = "resolved") => RunCallbackResolves
     /\ run.phase \in {"resolved", "rejected"} => run' = run]_vars

\* runTransaction has just resolved after a callback that popped and then
\* pushed, and the pushed value is on top of the shared stack
C20_Witness ==
  /\ run.phase = "resolved"
  /\ out.call = "commit"
  /\ Len(run.ops) = 2
  /\ run.ops[1].op = "pop"
  /\ run.ops[2].op = "push"
  /\ Top(stack) = run.ops[2].val
  /\ stxns[run.txn].done

\* C21 as stated: whenever the callback of runTransaction rejects, the
\* transaction is done afterwards, the step leaves the shared stack as it
\* was and runTransaction rejects with the callback's error.
C21_Stated ==
  [][RunCallbackRejects
       => /\ stxns'[run.txn].done
          /\ stack' = stack
          /\ run'.phase = "rejected"
          /\ run'.err = "CallbackError"]_vars

\* C21, amended: when the callback of runTransaction rejects while the
\* transaction runTransaction began is still open, runTransaction rolls it
\* back: the transaction is done, the shared stack is left as it was (as it
\* was by every push and pop of the callback), and runTransaction rejects
\* with the callback's error.
C21_RollbackOnError ==
  [][/\ (RunCallbackRejects /\ ~stxns[run.txn].done)
          => /\ stxns'[run.txn].done
             /\ stack' = stack
             /\ out'.call = "rollback"
             /\ run'.phase = "rejected"
             /\ run'.err = "CallbackError"
     /\ (\E t \in StkTxnIds : StkTxnPush(t) \/ StkTxnPop(t)) => stack' = stack]_vars

\* runTransaction has just rejected with the callback's error after the
\* callback had buffered two operations, and its rollback succeeded
C21_Witness ==
  /\ run.phase = "rejected"
  /\ run.err = "CallbackError"
  /\ Len(run.ops) = 2
  /\ out.call = "rollback"
  /\ out.err = "none"
  /\ stxns[run.txn].done

\* C22: when the callback of runTransaction rejects and the rollback of the
\* catch block throws because the transaction is already done, runTransaction
\* rejects with the rollback's error, 'Transaction is already complete'; when
\* the rollback succeeds it rejects with the callback's error.
C22_RollbackErrorWins ==
  [][RunCallbackRejects
       => /\ run'.phase = "rejected"
          /\ out'.call = "rollback"
          /\ stxns[run.txn].done => (out'.err = "TransactionComplete" /\ run'.err = "TransactionComplete")
          /\ ~stxns[run.txn].done => (out'.err = "none" /\ run'.err = "CallbackError")]_vars

\* the rollback of the catch block has just thrown and runTransaction has
\* rejected with its error
C22_Witness ==
  /\ run.phase = "rejected"
  /\ out.call = "rollback"
  /\ out.err = "TransactionComplete"
  /\ run.err = "TransactionComplete"

\* C23: a runTransaction called by the callback with the context it was
\* handed, whose storage API is a transaction, hands its own callback that
\* same context and that same transaction and begins no transaction; the
\* nested call neither commits nor rolls back when its callback settles; the
\* pushes and pops of the nested callback are buffered in the one
\* transaction and leave the shared stack alone, and they are replayed on it
\* when the outermost call commits.
C23_Reuse ==
  [][/\ RunNested
          => /\ run'.inner = Append(run.inner, [ctx |-> RunCtx, txn |-> run.txn, base |-> Len(stxns[run.txn].ops)])
             /\ out'.err = "none"
             /\ {t \in StkTxnIds : stxns'[t].made} = {t \in StkTxnIds : stxns[t].made}
             /\ stxns'[run.txn] = stxns[run.txn]
             /\ stack' = stack
     /\ RunNestedSettle
          => /\ stxns'[run.txn] = stxns[run.txn]
             /\ stack' = stack
             /\ run'.phase = "callback"
     /\ (run.inner # <<>> /\ (RunPush \/ RunPop))
          => /\ stack' = stack
             /\ (out'.err = "none" => Len(stxns'[run.txn].ops) = Len(stxns[run.txn].ops) + 1)
     /\ (RunCallbackResolves /\ run'.phase = "resolved")
          => /\ run.inner = <<>>
             /\ stack' = Replay(stack, stxns[run.txn].ops)]_vars

\* the callback of a nested runTransaction is running on the outer call's
\* transaction and has pushed a value that is not on the shared stack
C23_Witness ==
  /\ run.phase = "callback"
  /\ Len(run.inner) = 1
  /\ run.inner[1].txn = run.txn
  /\ run.inner[1].ctx = 1
  /\ ~stxns[run.txn].done
  /\ Len(stxns[run.txn].ops) = run.inner[1].base + 1
  /\ stxns[run.txn].ops[Len(stxns[run.txn].ops)].op = "push"
  /\ stack = <<>>

\* C24: runTransaction called with a context without a storage API fails
\* with 'No storage API present on context', and called without a callback
\* function it fails with 'Missing callback function'; either call begins no
\* transaction, constructs no connection and leaves the shared stack as it
\* was.
C24_ArgumentErrors ==
  [][RunTransaction
       => /\ run'.api = -1 => run'.err = "NoStorageApi"
          /\ (run'.api # -1 /\ run'.args = "opts") => run'.err = "MissingCallback"
          /\ (run'.api = -1 \/ run'.args = "opts")
               => /\ run'.phase = "rejected"
                  /\ out'.err = run'.err
                  /\ stxns' = stxns
                  /\ sconns' = sconns
                  /\ stkActive' = stkActive
                  /\ stack' = stack]_vars

\* runTransaction has just failed for want of a callback function
C24_Witness ==
  /\ run.phase = "rejected"
  /\ run.api # -1
  /\ run.args = "opts"
  /\ run.err = "MissingCallback"
  /\ out.call = "runTransaction"
  /\ \A t \in StkTxnIds : ~stxns[t].made

\* C25: when the context a MemKvTxn was begun with is canceled while the
\* transaction is open, the transaction is rolled back: it is done
\* afterwards, the shared store is as it was, and a transient connection is
\* back in the pool's idle list or with a waiter.
C25_CancelRollsBack ==
  [][\A t \in TxnIds :
       (TxnCtxCancel(t) /\ ~txns[t].done)
         => /\ txns'[t].done
            /\ store' = store
            /\ (~conns[txns[t].con].keepOpen => conns'[txns[t].con].closed)]_vars

C28_OneList ==
  ~closed =>
    \A c \in ConnIds :
      conns[c].made =>
        Cardinality({i \in 1..Len(pool) : pool[i] = c}) + Cardinality({i \in 1..Len(active) : active[i] = c}) = 1

\* the pool is open with one connection idle and another active
C28_Witness ==
  /\ ~closed
  /\ pool # <<>>
  /\ active # <<>>
  /\ \E r \in ReqIds : reqs[r].phase = "held" /\ InSeq(reqs[r].con, active)

\* C29: the idle list is non-empty only if no conn() request whose context
\* has not been canceled is waiting in the queue.
C29_IdleOnlyIfNoWaiter ==
  pool # <<>> => \A i \in 1..Len(reqQueue) : reqs[reqQueue[i]].timedOut

\* a released connection went to the request that was waiting, which has not
\* received it yet, and the connection released after it went to the idle list
C29_Witness ==
  /\ pool # <<>>
  /\ reqQueue = <<>>
  /\ \E r \in ReqIds : reqs[r].phase = "granted" /\ reqs[r].waited /\ InSeq(reqs[r].con, active)

\* C30: if every caller resumes once its promise is resolved, every holder
\* of a connection closes it and every transaction on a transient
\* connection is committed or rolled back, then a request that waits in the
\* queue does not wait for ever: it is granted a connection, or its context
\* is canceled.
C30_NoStarvation ==
  \A r \in ReqIds : (reqs[r].phase = "wait") ~> (reqs[r].phase # "wait")

\* a request that waited behind a request whose context was canceled has
\* been granted a connection
C30_Witness ==
  \E r \in ReqIds, q \in ReqIds :
    /\ q < r
    /\ reqs[q].timedOut
    /\ reqs[r].kind = "conn"
    /\ reqs[r].phase = "granted"
    /\ reqs[r].waited
    /\ InSeq(reqs[r].con, active)

\* C31: close() called on a connection that is already closed, a MemKvConn
\* or a MemStackConn, returns without an error, releases nothing and leaves
\* the pool and the connection as they were.
C31_CloseIdempotent ==
  [][/\ \A r \in ReqIds :
          (HandleClose(r) /\ conns[reqs[r].con].closed)
            => /\ out'.err = "none"
               /\ active' = active
               /\ pool' = pool
               /\ reqQueue' = reqQueue
               /\ conns' = conns
     /\ \A c \in ConnIds :
          (StkConnClose(c) /\ sconns[c].closed)
            => /\ out'.err = "none"
               /\ stkActive' = stkActive
               /\ sconns' = sconns]_vars

\* C32: when the context a MemStackTxn was begun with is canceled while the
\* transaction is open, the listener rolls it back: the transaction is done
\* afterwards, the shared stack is as it was and no rollback error arises.
\* A transaction that is done, by commit(), by rollback() or by the
\* listener, has no listener subscribed any more, so a later cancellation
\* runs nothing.
C32_CancelRollsBack ==
  [][\A t \in StkTxnIds :
       /\ (StkCancel(t) /\ ~stxns[t].done)
            => /\ stxns'[t].done
               /\ stack' = stack
               /\ out' = OutOf("cancel", "none", Undefined, FALSE)
       /\ stxns'[t].done => ~stxns'[t].sub
       /\ stxns[t].done => ~StkCancel(t)]_vars

\* the context of runTransaction's transaction was canceled while its
\* callback was running: the listener has run, the transaction is done,
\* the shared stack is empty as before and no listener is left
C32_Witness ==
  /\ out.call = "cancel"
  /\ run.phase = "callback"
  /\ stxns[run.txn].done
  /\ ~stxns[run.txn].sub
  /\ stack = <<>>

\* C33: a close() of an open MemStackConn that has open transactions marks
\* it closed and leaves the promise of close() pending; the promise stays
\* pending while more than one of those transactions is open, and the step
\* that resolves it is the commit, the rollback or the cancellation of the
\* last of them, after which the connection has no transaction.
C33_CloseWaitsForLast ==
  [][\A c \in ConnIds :
       /\ (StkConnClose(c) /\ ~sconns[c].closed /\ sconns[c].txns # <<>>)
            => /\ sconns'[c].closed
               /\ sconns'[c].closeResolve = "pending"
               /\ sconns'[c].txns = sconns[c].txns
               /\ stkActive' = stkActive
       /\ (sconns[c].closeResolve = "pending" /\ Len(sconns[c].txns) > 1)
            => sconns'[c].closeResolve = "pending"
       /\ (sconns[c].closeResolve = "pending" /\ sconns'[c].closeResolve # "pending")
            => /\ sconns'[c].closeResolve = "resolved"
               /\ sconns'[c].txns = <<>>
               /\ \E t \in StkTxnIds :
                    /\ sconns[c].txns = <<t>>
                    /\ ~stxns[t].done /\ stxns'[t].done
                    /\ StkTxnCommit(t) \/ StkTxnRollback(t) \/ StkCancel(t)
       /\ (sconns[c].closeResolve = "pending" /\ Len(sconns[c].txns) = 1 /\ stxns'[sconns[c].txns[1]].done)
            => sconns'[c].closeResolve = "resolved"
       /\ sconns'[c].closeResolve = "pending" => (sconns'[c].closed /\ sconns'[c].txns # <<>>)]_vars

\* on the only connection made, close() was called with two transactions
\* open; one of them has just ended and the promise of close() is pending
C33_Witness ==
  /\ SConnsMade = 1
  /\ out.call \in {"commit", "rollback", "cancel"}
  /\ out.err = "none"
  /\ \E c \in ConnIds :
       /\ sconns[c].closed
       /\ sconns[c].closeResolve = "pending"
       /\ Len(sconns[c].txns) = 1
       /\ \E t \in StkTxnIds : stxns[t].done

\* C34: a set or delete through a MemKvConn that is open changes the shared
\* store in that step, and a push or pop through a MemStackConn that is open
\* changes the shared stack in that step; a read through any open connection
\* or through the pool returns what the shared store holds at that time. The
\* same calls on a closed connection fail with 'Connection is closed' and
\* leave the shared store or stack as it was.
C34_CrudImmediate ==
  [][/\ \A r \in ReqIds :
          LET isClosed == conns[reqs[r].con].closed IN
          /\ (ConnSet(r) /\ ~isClosed)
               => out'.err = "none" /\ \E k \in Keys, v \in Vals : store' = [store EXCEPT ![k] = v]
          /\ (ConnDelete(r) /\ ~isClosed)
               => out'.err = "none" /\ \E k \in Keys : store' = [store EXCEPT ![k] = Undefined]
          /\ (ConnGet(r) /\ ~isClosed)
               => out'.err = "none" /\ \E k \in Keys : out'.result = store[k]
          /\ ((ConnSet(r) \/ ConnDelete(r) \/ ConnGet(r)) /\ isClosed)
               => out' = Out("ConnectionClosed", Undefined) /\ store' = store
          /\ (ReceiveCrud(r) /\ reqs[r].kind = "get" /\ ~isClosed)
               => out'.err = "none" /\ out'.result = store[reqs[r].key]
     /\ \A c \in ConnIds :
          /\ (StkConnOp(c) /\ ~sconns[c].closed)
               => /\ out'.err = "none"
                  /\ \/ \E v \in Vals : stack' = Append(stack, v) /\ out'.result = Len(stack) + 1
                     \/ stack' = PopSeq(stack) /\ out'.result = Top(stack)
                     \/ stack' = stack /\ out'.result = Top(stack)
          /\ (StkConnOp(c) /\ sconns[c].closed)
               => out' = Out("ConnectionClosed", Undefined) /\ stack' = stack
     /\ StkPoolOpResume
          => \/ stack' = stack /\ out'.result = Top(stack)
             \/ stack' = PopSeq(stack) /\ out'.result = Top(stack)
             \/ \E v \in Vals : stack' = Append(stack, v)]_vars

\* a push through an open connection has just made the shared stack two
\* long, while another connection is closed and a pool-level call is
\* waiting to read the stack
C34_Witness ==
  /\ engine = "stack"
  /\ out.err = "none"
  /\ out.result = 2
  /\ Len(stack) = 2
  /\ spend # <<>>
  /\ \E c \in ConnIds : sconns[c].closed
  /\ \E c \in ConnIds : sconns[c].made /\ ~sconns[c].closed

\* C35: a get in an open MemKvTxn that has written nothing returns what the
\* shared store holds for the key at that time, and a peek in an open
\* MemStackTxn that has pushed and popped nothing returns the top of the
\* shared stack at that time, whatever was written to the store or stack
\* since the transaction began.
C35_ReadsCurrent ==
  [][/\ \A t \in TxnIds :
          (TxnGet(t) /\ ~txns[t].done /\ txns[t].ops = <<>>)
            => out'.err = "none" /\ \E k \in Keys : out'.result = store[k]
     /\ \A t \in StkTxnIds :
          (StkTxnPeek(t) /\ ~stxns[t].done /\ stxns[t].ops = <<>>)
            => out'.err = "none" /\ out'.result = Top(stack)]_vars

\* C36: no call ends with 'Connection is not in this pool', the error
\* MemKvPool.return throws for a connection that is not in the active list,
\* and no connection is put into the idle list twice.
C36_ReturnOnlyActive ==
  /\ out.err # "NotInPool"
  /\ \A c \in ConnIds : Cardinality({i \in 1..Len(pool) : pool[i] = c}) <= 1

\* C37: a get, set, delete or beginTxn called through a MemKvConn handle
\* that its caller has closed fails with 'Connection is closed' and changes
\* neither the shared store nor the transactions, whoever the pool has
\* granted the connection to since.
C37_ClosedHandleFails ==
  [][\A r \in ReqIds :
       (/\ reqs[r].phase = "closed"
        /\ ConnGet(r) \/ ConnSet(r) \/ ConnDelete(r) \/ ConnBeginTxn(r, MaxTxn + 1, FALSE))
         => /\ out' = Out("ConnectionClosed", Undefined)
            /\ store' = store
            /\ txns' = txns]_vars

\* C38: once MemKvPool.close() has been called, no conn() request that
\* waits in the queue is granted a connection, neither by close() itself
\* nor by a later step.
C38_NoGrantAfterClose ==
  [][\A r \in ReqIds :
       (reqs[r].kind = "conn" /\ reqs[r].phase = "wait" /\ reqs'[r].phase = "granted")
         => ~closed']_vars

\* C39: when the callback of runTransaction settles, runTransaction makes
\* one call on the transaction it began and no more: commit() when the
\* callback resolved, rollback() when it rejected.
C39_OneOfCommitRollback ==
  [][/\ RunCallbackResolves => run'.calls = <<"commit">>
     /\ RunCallbackRejects => run'.calls = <<"rollback">>]_vars

====
